---- MODULE Spec2Model ----
(***************************************************************************)
(* Problemsolver: USDT payment ingestion and settlement.                   *)
(*                                                                         *)
(* The model follows the relational store (committed rows, uncommitted     *)
(* rows of each open transaction, row locks, unique indexes) and the       *)
(* handlers that work on it: the poller (service.py), the matcher          *)
(* (processor.py), invoice creation (invoices.py) and the ingestion test.  *)
(*                                                                         *)
(* Decimals are integers counted in units of 10^-FracDigits.  UUIDs are    *)
(* natural numbers.                                                        *)
(***************************************************************************)
EXTENDS Integers, Sequences, FiniteSets, TLC

VARIABLES
    \* ---- committed rows of the store (models.py)
    invoices,        \* id -> [merchant_id, publish_amount, network, address, address_tag, status]
    deposit_raw,     \* tx_id -> row (ux_deposit_raw_txid makes tx_id a key)
    payments,        \* set of rows, each with its own id
    ledger_entries,  \* sequence of rows (append-only)
    webhook_queue,   \* sequence of rows in created_at order
    audit_logs,      \* sequence of rows (append-only)
    system_events,   \* sequence of rows
    checkpoint,      \* the poller_checkpoints row of CHECKPOINT_KEY, or NoRow
    locks,           \* invoice id -> the transaction holding its row lock, or NoOwner
    \* ---- the exchange
    exchange,        \* tx id -> the deposit record the exchange reports now
    \* ---- one poller process per replica (service.py, processor.py)
    pc,              \* where the replica is in run_once_window
    queue,           \* deposits_sorted still to handle, head = dep
    tx,              \* the uncommitted writes of the replica's open transaction
    cands,           \* candidates of try_match_and_credit
    todo,            \* candidates the exact pass has not visited yet
    tgt,             \* the invoice_row handed to _credit_invoice, with used_amount_diff
    res,             \* what try_match_and_credit returned for dep
    met,             \* the process's problemsolver_collisions_total counter
    \* ---- budgets that keep the model finite
    polls,           \* windows fetched so far
    faults,          \* statement failures and crashes so far
    \* ---- test_ingest_deposit_idempotent
    test,
    \* ---- POST /api/invoices requests
    req,
    \* ---- webhook dispatcher (worker.py)
    wk,              \* one worker process per replica: position, session row, counters
    net,             \* the world outside: the clock and what the merchant endpoint received
    \* ---- PollerService.run of one replica (service.py)
    run              \* position in the loop, its locals, self.running

dbvars == <<invoices, deposit_raw, payments, ledger_entries, webhook_queue,
            audit_logs, system_events, checkpoint, locks>>
pollervars == <<pc, queue, tx, cands, todo, tgt, res, met>>
vars == <<invoices, deposit_raw, payments, ledger_entries, webhook_queue,
          audit_logs, system_events, checkpoint, locks, exchange,
          pc, queue, tx, cands, todo, tgt, res, met, polls, faults, test, req,
          wk, net, run>>
workervars == <<wk, net>>

----------------------------------------------------------------------------
\* Bounds of the model

\* Decimals carry this many fractional digits.
FracDigits == 7
\* Windows fetched by all replicas together.
MaxPolls == 2
\* Statement failures and process crashes together.
MaxFaults == 1
\* UUIDs carry this many bits (128 in the program).
UuidBits == 11

None == "None"
NoRow == [none |-> TRUE]
NoOwner == "nobody"

Pollers == {"p1", "p2"}

RECURSIVE Pow10(_)
Pow10(n) == IF n <= 0 THEN 1 ELSE 10 * Pow10(n - 1)

\* A decimal literal whole.milli (three fractional digits written).
Dec(whole, milli) == whole * Pow10(FracDigits) + milli * Pow10(FracDigits - 3)

\* str.upper() on the labels that occur.
Upper(s) ==
    CASE s = "usdt" -> "USDT"
      [] s = "erc20" -> "ERC20"
      [] s = "bep20" -> "BEP20"
      [] OTHER -> s

----------------------------------------------------------------------------
\* config.py

DEFAULT_NETWORK_CONFIRMATIONS ==
    [ETH |-> 12, ERC20 |-> 12, BEP20 |-> 3, TRC20 |-> 20, TRON |-> 20]

FALLBACK_REQUIRED_CONFIRMATIONS == 2

required_confirmations_for_fallback_only(network) ==
    FALLBACK_REQUIRED_CONFIRMATIONS

required_confirmations_for(network) ==
    IF network = None \/ network = ""
    THEN FALLBACK_REQUIRED_CONFIRMATIONS
    ELSE IF Upper(network) \in DOMAIN DEFAULT_NETWORK_CONFIRMATIONS
         THEN DEFAULT_NETWORK_CONFIRMATIONS[Upper(network)]
         ELSE FALLBACK_REQUIRED_CONFIRMATIONS

----------------------------------------------------------------------------
\* amount_diff.py

NETWORK_PRECISIONS ==
    [ERC20 |-> 6, ETH |-> 6, TRC20 |-> 6, TRON |-> 6, BEP20 |-> 18, BSC |-> 18]

DEFAULT_PRECISION == 6

network_precision(network) ==
    IF network = None \/ network = ""
    THEN DEFAULT_PRECISION
    ELSE IF Upper(network) \in DOMAIN NETWORK_PRECISIONS
         THEN NETWORK_PRECISIONS[Upper(network)]
         ELSE DEFAULT_PRECISION

\* The modulus taken one digit too wide: 10 ** (k + 1).
invoice_index_modulus_too_wide(invoice_id, k) ==
    IF k <= 0 THEN 0 ELSE invoice_id % Pow10(k + 1)

invoice_index_from_uuid(invoice_id, k) ==
    IF k <= 0 THEN 0 ELSE invoice_id % Pow10(k)

\* Decimal(idx) * Decimal(10) ** (-k), in units of 10^-FracDigits
compute_delta(invoice_id, k) ==
    IF k <= FracDigits
    THEN invoice_index_from_uuid(invoice_id, k) * Pow10(FracDigits - k)
    ELSE (invoice_index_from_uuid(invoice_id, k) * Pow10(FracDigits)) \div Pow10(k)

\* The quantum's sign slipped: Decimal(1).scaleb(prec), a quantum of 10^prec.
QuantizeDownSignSlip(raw, prec) ==
    IF FracDigits + prec >= 10
    THEN 0
    ELSE (raw \div Pow10(FracDigits + prec)) * Pow10(FracDigits + prec)

\* raw.quantize(Decimal(1).scaleb(-prec), rounding=ROUND_DOWN)
QuantizeDown(raw, prec) ==
    IF prec >= FracDigits
    THEN raw
    ELSE (raw \div Pow10(FracDigits - prec)) * Pow10(FracDigits - prec)

\* ---- the decimal context.  getcontext() is one object per thread, shared
\* by every caller; its prec is the number of significant digits to which
\* the result of an arithmetic operation is rounded (ROUND_HALF_EVEN).

\* prec of the default context of the decimal module.
DECIMAL_DEFAULT_PREC == 28
\* getcontext().prec = 50 in compute_delta.
COMPUTE_DELTA_PREC == 50
RECURSIVE Digits(_)
Digits(x) == IF x < 10 THEN 1 ELSE 1 + Digits(x \div 10)

\* Digits an integer of the model can have (32-bit).
IntDigits == Digits(2147483647)

Max(a, b) == IF a >= b THEN a ELSE b

\* Rounding of a non-negative value to prec significant digits, half-even.
RoundSig(x, prec) ==
    IF prec >= IntDigits \/ Digits(x) <= prec
    THEN x
    ELSE LET m == Pow10(Digits(x) - prec)
             q == x \div m
             r == x % m
         IN  IF 2 * r > m \/ (2 * r = m /\ q % 2 = 1)
             THEN (q + 1) * m
             ELSE q * m

\* Digits of the coefficient raw has once it is written with prec
\* fractional digits; quantize signals InvalidOperation when they are more
\* than the context allows.
QuantizedDigits(raw, prec) ==
    IF raw = 0 THEN 1
    ELSE IF prec >= FracDigits
         THEN Digits(raw) + (prec - FracDigits)
         ELSE Digits(raw \div Pow10(FracDigits - prec))

\* The two assignments to getcontext().prec left out: the caller's context
\* stays in force.
ContextPrecLeftAlone(ambient, network, k) == ambient

\* The prec in force when line 69 adds: line 67 has set it to
\* max(50, prec + k + 10), and compute_delta, called at line 68, has set it
\* to 50 after that (line 58); what the caller's context held is gone.
ContextPrecAtAddition(ambient, network, k) ==
    LET set_at_line_67 == Max(50, network_precision(network) + k + 10)
        set_at_line_58 == COMPUTE_DELTA_PREC
    IN  set_at_line_58

\* adjusted_amount_for_invoice called by a thread whose context has
\* prec = ambient: the value it returns (or the InvalidOperation quantize
\* raises), the delta it added, and the prec it leaves in the context.
adjusted_amount_in_context(base_amount, invoice_id, network, k, ambient) ==
    LET prec == network_precision(network)
        ctx == ContextPrecAtAddition(ambient, network, k)
        delta == RoundSig(compute_delta(invoice_id, k), ctx)
        raw == RoundSig(base_amount + delta, ctx)
    IN  [value |-> QuantizeDown(raw, prec),
         raised |-> QuantizedDigits(QuantizeDown(raw, prec), prec) > ctx,
         delta |-> delta,
         ctx |-> ctx]

adjusted_amount_for_invoice(base_amount, invoice_id, network, k) ==
    adjusted_amount_in_context(base_amount, invoice_id, network, k,
                               DECIMAL_DEFAULT_PREC).value

AMOUNT_DIFF_K == 3


----------------------------------------------------------------------------
\* The store

\* The uncommitted writes of one transaction.
EmptyTx ==
    [rows |-> <<>>,      \* deposit_raw rows added, by tx_id
     pay  |-> {},        \* payments rows added
     led  |-> <<>>,      \* ledger_entries rows added
     st   |-> <<>>,      \* invoices.status updates, by invoice id
     wh   |-> <<>>,      \* webhook_queue rows added
     aud  |-> <<>>,      \* audit_logs rows added
     ev   |-> <<>>]      \* system_events rows added

\* COMMIT: every write of the transaction becomes visible at once.
CommitTx(t, ckpt) ==
    /\ deposit_raw' = t.rows @@ deposit_raw
    /\ payments' = payments \cup t.pay
    /\ ledger_entries' = ledger_entries \o t.led
    /\ invoices' = [i \in DOMAIN invoices |->
                      IF i \in DOMAIN t.st
                      THEN [invoices[i] EXCEPT !.status = t.st[i]]
                      ELSE invoices[i]]
    /\ webhook_queue' = webhook_queue \o t.wh
    /\ audit_logs' = audit_logs \o t.aud
    /\ system_events' = system_events \o t.ev
    /\ checkpoint' = ckpt

\* Row locks are released when the transaction ends, by commit or rollback.
ReleaseLocks(p) == [i \in DOMAIN locks |-> IF locks[i] = p THEN NoOwner ELSE locks[i]]

\* gen_random_uuid() for payments.id: an id no committed or uncommitted row has.
UsedPaymentIds ==
    {r.id : r \in payments} \cup UNION {{r.id : r \in tx[q].pay} : q \in Pollers}

NewPaymentId ==
    CHOOSE n \in 1..(Cardinality(UsedPaymentIds) + 1) :
        /\ n \notin UsedPaymentIds
        /\ \A m \in 1..(n - 1) : m \in UsedPaymentIds

\* ux_deposit_raw_txid: tx_id is taken by a committed row or by a row of the
\* inserting transaction itself.
UxDepositRawTxidViolated(t, txid) ==
    txid \in DOMAIN deposit_raw \/ txid \in DOMAIN t.rows

\* An insert of a key that another open transaction has inserted waits for
\* that transaction to end.
UxDepositRawTxidWaits(p, txid) ==
    \E q \in Pollers \ {p} : txid \in DOMAIN tx[q].rows

\* ux_payments_txid_invoice
UxPaymentsViolated(t, txid, inv) ==
    \E r \in payments \cup t.pay : r.tx_id = txid /\ r.invoice_id = inv

----------------------------------------------------------------------------
\* The exchange

TxIds == {"t1", "t2"}

insertTimeOf == [t1 |-> 1, t2 |-> 2]

WindowTimes == {1, 2}

\* /sapi/v1/capital/deposit/hisrec: the records of the window, at most limit
get_deposit_history(start_time_ms, end_time_ms, limit) ==
    LET inWindow == {exchange[t] : t \in
                      {u \in DOMAIN exchange :
                          /\ exchange[u].insertTime >= start_time_ms
                          /\ exchange[u].insertTime <= end_time_ms}}
    IN  IF Cardinality(inWindow) <= limit
        THEN {inWindow}
        ELSE {S \in SUBSET inWindow : Cardinality(S) = limit}

MAX_LIMIT == 200

\* The records in whatever order the exchange returned them.
InReturnedOrder(S) ==
    {s \in [1..Cardinality(S) -> S] : \A i, j \in DOMAIN s : i # j => s[i] # s[j]}

\* sorted(deposits, key=insertTime): the ascending orders of the records
SortedByInsertTime(S) ==
    {s \in [1..Cardinality(S) -> S] :
        /\ \A i, j \in DOMAIN s : i < j => s[i].insertTime <= s[j].insertTime
        /\ \A i, j \in DOMAIN s : i # j => s[i] # s[j]}


----------------------------------------------------------------------------
\* processor.py: ingest_deposit

\* DepositRaw(...) built from the exchange's record
DepositRawOf(deposit) ==
    [tx_id |-> deposit.txId,
     coin |-> deposit.coin,
     network |-> deposit.network,
     amount |-> deposit.amount,
     status |-> deposit.status,
     address |-> deposit.address,
     address_tag |-> deposit.addressTag,
     insert_time_ms |-> deposit.insertTime,
     confirmTimes |-> deposit.confirmTimes,     \* kept in raw
     processed |-> FALSE]

\* What ingest_deposit does in transaction t: the outcome (record, inserted),
\* or raised, and the transaction's writes afterwards.  session.rollback() in
\* the except branch drops every uncommitted write of the transaction.
ingest_deposit_always_inserts(t, deposit) ==
    IF deposit.txId = None
    THEN [raised |-> TRUE, inserted |-> FALSE, rec |-> NoRow, tx |-> t]
    ELSE [raised |-> FALSE, inserted |-> TRUE,
          rec |-> DepositRawOf(deposit),
          tx |-> [t EXCEPT !.rows = (deposit.txId :> DepositRawOf(deposit)) @@ t.rows]]

ingest_deposit(t, deposit) ==
    IF deposit.txId = None
    THEN [raised |-> TRUE, inserted |-> FALSE, rec |-> NoRow, tx |-> t]
    ELSE IF UxDepositRawTxidViolated(t, deposit.txId)
         THEN IF deposit.txId \in DOMAIN deposit_raw
              THEN [raised |-> FALSE, inserted |-> FALSE,
                    rec |-> deposit_raw[deposit.txId], tx |-> EmptyTx]
              ELSE [raised |-> TRUE, inserted |-> FALSE, rec |-> NoRow, tx |-> EmptyTx]
         ELSE [raised |-> FALSE, inserted |-> TRUE,
               rec |-> DepositRawOf(deposit),
               tx |-> [t EXCEPT !.rows = (deposit.txId :> DepositRawOf(deposit)) @@ t.rows]]

----------------------------------------------------------------------------
\* service.py: PollerService.run_once_window, one replica p

NoTarget == [invoice |-> 0, used_amount_diff |-> FALSE]

\* Of the Prometheus counters of processor.py only MET_COLLISIONS is kept: the
\* other two are written and never read.
ZeroMetrics == [collisions |-> 0]

\* The replica leaves dep: the loop goes to the next deposit, or the window ends.
NextDeposit(p) ==
    /\ queue' = [queue EXCEPT ![p] = Tail(queue[p])]
    /\ pc' = [pc EXCEPT ![p] = IF Len(queue[p]) > 1 THEN "ingest" ELSE "idle"]
    /\ tx' = [tx EXCEPT ![p] = EmptyTx]
    /\ cands' = [cands EXCEPT ![p] = {}]
    /\ todo' = [todo EXCEPT ![p] = {}]
    /\ tgt' = [tgt EXCEPT ![p] = NoTarget]
    /\ res' = [res EXCEPT ![p] = "none"]

\* The deposit_raw row the open transaction works on.
RawRec(p) == tx[p].rows[Head(queue[p]).txId]

\* lines 59-69: fetch the window and sort it
Fetch(p) ==
    /\ pc[p] = "idle"
    /\ polls < MaxPolls
    /\ polls' = polls + 1
    /\ \E start_ms \in WindowTimes, end_ms \in WindowTimes :
         /\ start_ms <= end_ms
         /\ \E deposits \in get_deposit_history(start_ms, end_ms, MAX_LIMIT) :
              \E deposits_sorted \in SortedByInsertTime(deposits) :
                 /\ queue' = [queue EXCEPT ![p] = deposits_sorted]
                 /\ pc' = [pc EXCEPT ![p] = IF deposits_sorted = <<>> THEN "idle" ELSE "ingest"]
    /\ UNCHANGED <<dbvars, exchange, tx, cands, todo, tgt, res, met, faults, test, req, workervars, run>>

\* lines 76-78: session.begin() and ingest_deposit(session, dep)
Ingest(p) ==
    /\ pc[p] = "ingest"
    /\ ~UxDepositRawTxidWaits(p, Head(queue[p]).txId)
    /\ LET out == ingest_deposit(tx[p], Head(queue[p])) IN
         IF out.raised
         THEN NextDeposit(p)
         ELSE /\ tx' = [tx EXCEPT ![p] = out.tx]
              /\ pc' = [pc EXCEPT ![p] = IF out.inserted THEN "match" ELSE "commit"]
              /\ UNCHANGED <<queue, cands, todo, tgt, res>>
    /\ UNCHANGED <<dbvars, exchange, met, polls, faults, test, req, workervars, run>>

----------------------------------------------------------------------------
\* processor.py: try_match_and_credit

\* int(raw.get("confirmTimes") or 0)
Confirmations(row) == row.confirmTimes

\* lines 82-91: the deposit passes the filter gate
GateOpen(row) ==
    /\ Upper(IF row.coin = None THEN "" ELSE row.coin) = "USDT"
    /\ ~(row.status # 1 \/ Confirmations(row) < required_confirmations_for(row.network))

CANDIDATE_LIMIT == 50

\* The select without lines 99-100: the deposit's address_tag is not compared.
CandidatesIgnoringTag(row) ==
    LET all == {i \in DOMAIN invoices :
                  /\ invoices[i].address = row.address
                  /\ invoices[i].network = row.network
                  /\ invoices[i].status = "pending"}
    IN  IF Cardinality(all) <= CANDIDATE_LIMIT
        THEN {all}
        ELSE {S \in SUBSET all : Cardinality(S) = CANDIDATE_LIMIT}

\* lines 94-103: the candidate sets the select may return
Candidates(row) ==
    LET all == {i \in DOMAIN invoices :
                  /\ invoices[i].address = row.address
                  /\ invoices[i].network = row.network
                  /\ invoices[i].status = "pending"
                  /\ (row.address_tag # None /\ row.address_tag # "")
                        => invoices[i].address_tag = row.address_tag}
    IN  IF Cardinality(all) <= CANDIDATE_LIMIT
        THEN {all}
        ELSE {S \in SUBSET all : Cardinality(S) = CANDIDATE_LIMIT}

\* try_match_and_credit returns False without a write
ReturnFalse(p) ==
    /\ res' = [res EXCEPT ![p] = "false"]
    /\ pc' = [pc EXCEPT ![p] = "commit"]

\* lines 80-106: gate and candidate select
MatchStart(p) ==
    /\ pc[p] = "match"
    /\ IF ~GateOpen(RawRec(p))
       THEN ReturnFalse(p) /\ UNCHANGED <<cands, todo>>
       ELSE \E cs \in Candidates(RawRec(p)) :
              IF cs = {}
              THEN ReturnFalse(p) /\ UNCHANGED <<cands, todo>>
              ELSE /\ cands' = [cands EXCEPT ![p] = cs]
                   /\ todo' = [todo EXCEPT ![p] = cs]
                   /\ pc' = [pc EXCEPT ![p] = "exact"]
                   /\ res' = res
    /\ UNCHANGED <<dbvars, exchange, queue, tx, tgt, met, polls, faults, test, req, workervars, run>>

\* select ... with_for_update: the row lock is free or already ours
CanLock(p, i) == locks[i] \in {NoOwner, p}

\* line 115: the status read under the lock
ExactSkipsRecheck(i) == TRUE

ExactStillPending(i) == invoices[i].status = "pending"

\* The exact pass left out: the matcher goes to the amount-diff pass at once.
ExactPassSkipped(p) ==
    /\ pc[p] = "exact"
    /\ todo' = [todo EXCEPT ![p] = {}]
    /\ pc' = [pc EXCEPT ![p] = "diff"]
    /\ UNCHANGED <<dbvars, exchange, queue, tx, cands, tgt, res, met, polls, faults,
                   test, req, workervars, run>>

\* lines 112-122: one iteration of the exact pass, on a candidate not yet visited
ExactStep(p) ==
    /\ pc[p] = "exact"
    /\ \E c \in todo[p] :
         /\ CanLock(p, c)
         /\ locks' = [locks EXCEPT ![c] = p]
         /\ IF ExactStillPending(c) /\ invoices[c].publish_amount = RawRec(p).amount
            THEN /\ tgt' = [tgt EXCEPT ![p] = [invoice |-> c, used_amount_diff |-> FALSE]]
                 /\ pc' = [pc EXCEPT ![p] = "credit1"]
                 /\ todo' = todo
            ELSE /\ todo' = [todo EXCEPT ![p] = todo[p] \ {c}]
                 /\ pc' = [pc EXCEPT ![p] = IF todo[p] = {c} THEN "diff" ELSE "exact"]
                 /\ tgt' = tgt
    /\ UNCHANGED <<invoices, deposit_raw, payments, ledger_entries, webhook_queue,
                   audit_logs, system_events, checkpoint, exchange, queue, tx,
                   cands, res, met, polls, faults, test, req, workervars, run>>

\* lines 125-129: matches of the amount-diff pass
Matches(p) ==
    {c \in cands[p] :
        adjusted_amount_for_invoice(invoices[c].publish_amount, c,
                                    invoices[c].network, AMOUNT_DIFF_K)
          = RawRec(p).amount}

\* lines 149-152: the rows written for a collision
CollisionAudit(txid, ms) ==
    [actor |-> "poller", action |-> "collision_detected", tx |-> txid, matches |-> ms]

CollisionEvent(txid, ms) ==
    [source |-> "poller", event_type |-> "collision", tx |-> txid, matches |-> ms]

\* lines 145-152: every match is set to pending_manual_resolution, one
\* AuditLog and one SystemEvent are added
CollisionWritesFirstOnly(t, txid, ms) ==
    [t EXCEPT
       !.st = ((CHOOSE c \in ms : TRUE) :> "pending_manual_resolution") @@ @,
       !.aud = Append(@, CollisionAudit(txid, ms)),
       !.ev = Append(@, CollisionEvent(txid, ms))]

CollisionWrites(t, txid, ms) ==
    [t EXCEPT
       !.st = [c \in ms |-> "pending_manual_resolution"] @@ @,
       !.aud = Append(@, CollisionAudit(txid, ms)),
       !.ev = Append(@, CollisionEvent(txid, ms))]

\* line 137: _credit_invoice(..., used_amount_diff=True)
DiffCreditTargetFlagForgotten(c) == [invoice |-> c, used_amount_diff |-> FALSE]

DiffCreditTarget(c) == [invoice |-> c, used_amount_diff |-> TRUE]

\* lines 124-158: the amount-diff pass
DiffPass(p) ==
    /\ pc[p] = "diff"
    /\ LET ms == Matches(p) IN
         IF Cardinality(ms) = 1
         THEN \E c \in ms :
                /\ CanLock(p, c)
                /\ locks' = [locks EXCEPT ![c] = p]
                /\ IF invoices[c].status # "pending"
                   THEN ReturnFalse(p) /\ tgt' = tgt
                   ELSE /\ tgt' = [tgt EXCEPT ![p] = DiffCreditTarget(c)]
                        /\ pc' = [pc EXCEPT ![p] = "credit1"]
                        /\ res' = res
                /\ UNCHANGED <<tx, met>>
         ELSE IF Cardinality(ms) > 1
         THEN /\ \A c \in ms : CanLock(p, c)
              /\ met' = [met EXCEPT ![p].collisions = @ + 1]
              /\ locks' = [i \in DOMAIN locks |-> IF i \in ms THEN p ELSE locks[i]]
              /\ tx' = [tx EXCEPT ![p] = CollisionWrites(@, RawRec(p).tx_id, ms)]
              /\ ReturnFalse(p)
              /\ tgt' = tgt
         ELSE /\ ReturnFalse(p)
              /\ UNCHANGED <<locks, tx, met, tgt>>
    /\ UNCHANGED <<invoices, deposit_raw, payments, ledger_entries, webhook_queue,
                   audit_logs, system_events, checkpoint, exchange, queue,
                   cands, todo, polls, faults, test, req, workervars, run>>


----------------------------------------------------------------------------
\* processor.py: _credit_invoice

PaymentRow(id, inv, row, used_amount_diff) ==
    [id |-> id,
     invoice_id |-> inv,
     tx_id |-> row.tx_id,
     amount |-> row.amount,
     network |-> row.network,
     address |-> row.address,
     address_tag |-> row.address_tag,
     status |-> "settled",
     used_amount_diff |-> used_amount_diff]

\* reference_id taken from the invoice instead of the Payment just flushed.
LedgerRowReferencingInvoice(inv, row, payment_id) ==
    [merchant_id |-> invoices[inv].merchant_id,
     change_amount |-> row.amount,
     currency |-> "USDT",
     entry_type |-> "credit_invoice",
     reference_id |-> inv,
     invoice_id |-> inv,
     tx_id |-> row.tx_id,
     confirmations |-> Confirmations(row)]

LedgerRow(inv, row, payment_id) ==
    [merchant_id |-> invoices[inv].merchant_id,
     change_amount |-> row.amount,
     currency |-> "USDT",
     entry_type |-> "credit_invoice",
     reference_id |-> payment_id,
     invoice_id |-> inv,
     tx_id |-> row.tx_id,
     confirmations |-> Confirmations(row)]

WebhookRow(inv, row, used_amount_diff) ==
    [merchant_id |-> invoices[inv].merchant_id,
     invoiceId |-> inv,
     payload_status |-> "paid",
     amount |-> row.amount,
     network |-> row.network,
     txHash |-> row.tx_id,
     confirmations |-> Confirmations(row),
     used_amount_diff |-> used_amount_diff,
     webhook_url |-> None,          \* headers={} carries no x-ps-webhook-url
     idempotency_key |-> None,
     attempts |-> 0,
     last_error |-> None,
     next_attempt_at |-> None,
     status |-> "pending"]

\* The transaction is over without a commit: its writes are dropped, its row
\* locks are released, and the window goes on with the next deposit
\* (service.py lines 88-90).
RollbackAndLeaveWindow(p) ==
    /\ queue' = [queue EXCEPT ![p] = <<>>]
    /\ pc' = [pc EXCEPT ![p] = "idle"]
    /\ tx' = [tx EXCEPT ![p] = EmptyTx]
    /\ cands' = [cands EXCEPT ![p] = {}]
    /\ todo' = [todo EXCEPT ![p] = {}]
    /\ tgt' = [tgt EXCEPT ![p] = NoTarget]
    /\ res' = [res EXCEPT ![p] = "none"]
    /\ locks' = ReleaseLocks(p)

RollbackAndContinue(p) ==
    /\ NextDeposit(p)
    /\ locks' = ReleaseLocks(p)

\* lines 170-182: the Payment is added and flushed
Credit1(p) ==
    /\ pc[p] = "credit1"
    /\ IF UxPaymentsViolated(tx[p], RawRec(p).tx_id, tgt[p].invoice)
       THEN /\ RollbackAndContinue(p)
            /\ met' = met
       ELSE /\ tx' = [tx EXCEPT ![p].pay = @ \cup
                        {PaymentRow(NewPaymentId, tgt[p].invoice, RawRec(p),
                                    tgt[p].used_amount_diff)}]
            /\ pc' = [pc EXCEPT ![p] = "credit2"]
            /\ UNCHANGED <<locks, queue, cands, todo, tgt, res, met>>
    /\ UNCHANGED <<invoices, deposit_raw, payments, ledger_entries, webhook_queue,
                   audit_logs, system_events, checkpoint, exchange, polls, faults,
                   test, req, workervars, run>>

\* lines 183-209, then lines 121-122 or 138-139: the other four writes are
\* flushed and the matcher returns True
Credit2(p) ==
    /\ pc[p] = "credit2"
    /\ LET row == RawRec(p)
           inv == tgt[p].invoice
           payment == CHOOSE r \in tx[p].pay : r.tx_id = row.tx_id /\ r.invoice_id = inv
       IN  tx' = [tx EXCEPT
                    ![p].led = Append(@, LedgerRow(inv, row, payment.id)),
                    ![p].st = (inv :> "paid") @@ @,
                    ![p].rows = (row.tx_id :> [row EXCEPT !.processed = TRUE]) @@ @,
                    ![p].wh = Append(@, WebhookRow(inv, row, tgt[p].used_amount_diff))]
    /\ res' = [res EXCEPT ![p] = "true"]
    /\ pc' = [pc EXCEPT ![p] = "commit"]
    /\ UNCHANGED <<dbvars, exchange, queue, cands, todo, tgt, met, polls, faults, test, req, workervars, run>>

----------------------------------------------------------------------------
\* service.py lines 85-87 and the exit of session.begin()

\* raw_rec of line 77: the row just inserted, or the row that existed
RawRecOrExisting(p) ==
    IF Head(queue[p]).txId \in DOMAIN tx[p].rows
    THEN RawRec(p)
    ELSE deposit_raw[Head(queue[p]).txId]

\* _save_checkpoint
CheckpointOf(rec) ==
    [last_insert_time_ms |-> rec.insert_time_ms, last_tx_id |-> rec.tx_id]

Commit(p) ==
    /\ pc[p] = "commit"
    /\ CommitTx(tx[p], CheckpointOf(RawRecOrExisting(p)))
    /\ locks' = ReleaseLocks(p)
    /\ NextDeposit(p)
    /\ UNCHANGED <<exchange, met, polls, faults, test, req, workervars, run>>

\* A statement of the open transaction fails (connection lost, deadlock
\* victim, lock timeout): the transaction is aborted, every later statement
\* of it fails, the block is left by the exception and nothing is committed.
DbFail(p) ==
    /\ pc[p] \in {"ingest", "match", "exact", "diff", "credit1", "credit2", "commit"}
    /\ pc[p] = "ingest" => Head(queue[p]).txId \notin DOMAIN deposit_raw
    /\ faults < MaxFaults
    /\ faults' = faults + 1
    /\ RollbackAndContinue(p)
    /\ UNCHANGED <<invoices, deposit_raw, payments, ledger_entries, webhook_queue,
                   audit_logs, system_events, checkpoint, exchange, met, polls, test, req, workervars, run>>

\* try_match_and_credit raises an exception that is not a failed statement
\* (line 87: int() of a confirmTimes that is no integer literal), before its
\* first statement.  processor.py lines 159-162 count it and re-raise,
\* service.py lines 81-84 log it and go on to lines 85-87 in the same, still
\* usable, transaction.
MatcherRaises(p) ==
    /\ pc[p] = "match"
    /\ Upper(IF RawRec(p).coin = None THEN "" ELSE RawRec(p).coin) = "USDT"   \* lines 83-85
    /\ faults < MaxFaults
    /\ faults' = faults + 1
    /\ res' = [res EXCEPT ![p] = "raised"]
    /\ pc' = [pc EXCEPT ![p] = "commit"]
    /\ UNCHANGED <<dbvars, exchange, queue, tx, cands, todo, tgt, met, polls, test, req,
                   workervars, run>>

\* The process dies and is started again: the open transaction is rolled
\* back by the store, the counters of the process start from zero.
Crash(p) ==
    /\ pc[p] # "idle"
    /\ faults < MaxFaults
    /\ faults' = faults + 1
    /\ pc' = [pc EXCEPT ![p] = "idle"]
    /\ queue' = [queue EXCEPT ![p] = <<>>]
    /\ tx' = [tx EXCEPT ![p] = EmptyTx]
    /\ cands' = [cands EXCEPT ![p] = {}]
    /\ todo' = [todo EXCEPT ![p] = {}]
    /\ tgt' = [tgt EXCEPT ![p] = NoTarget]
    /\ res' = [res EXCEPT ![p] = "none"]
    /\ met' = [met EXCEPT ![p] = ZeroMetrics]
    /\ locks' = ReleaseLocks(p)
    /\ UNCHANGED <<invoices, deposit_raw, payments, ledger_entries, webhook_queue,
                   audit_logs, system_events, checkpoint, exchange, polls, test, req, workervars, run>>

\* The exchange reports more confirmations for a deposit.
FULL_CONFIRMATIONS == 12

Confirm(t) ==
    /\ exchange[t].confirmTimes < FULL_CONFIRMATIONS
    /\ exchange' = [exchange EXCEPT ![t].confirmTimes = FULL_CONFIRMATIONS]
    /\ UNCHANGED <<dbvars, pollervars, polls, faults, test, req, workervars, run>>

----------------------------------------------------------------------------
\* The initial store of the matcher's specification

InvoiceRow(merchant, amount, network, address, tag, status) ==
    [merchant_id |-> merchant, publish_amount |-> amount, network |-> network,
     address |-> address, address_tag |-> tag, status |-> status]

\* Two invoices whose amount-diff values agree (ids 1001 and 2001 give the
\* same index), one invoice with an index of its own, one on another address,
\* one on each of three other networks.
InitInvoices ==
    (1001 :> InvoiceRow("m1", Dec(10, 0), "ERC20", "A", None, "pending")) @@
    (2001 :> InvoiceRow("m2", Dec(10, 0), "ERC20", "A", None, "pending")) @@
    (3005 :> InvoiceRow("m1", Dec(20, 0), "ERC20", "A", "memo", "pending")) @@
    (4001 :> InvoiceRow("m1", Dec(10, 1), "ERC20", "B", None, "pending")) @@
    (5001 :> InvoiceRow("m3", Dec(10, 0), "BEP20", "A", None, "pending")) @@
    (6001 :> InvoiceRow("m4", Dec(10, 0), "TRC20", "A", None, "pending")) @@
    (7001 :> InvoiceRow("m5", Dec(10, 0), "SOL", "A", None, "pending"))

DepositAmounts == {Dec(10, 0), Dec(10, 1), Dec(20, 0), Dec(20, 5)}

DepositKinds ==
    {[coin |-> "USDT", network |-> "ERC20", status |-> 1, confirmTimes |-> 12],
     [coin |-> "USDT", network |-> "ERC20", status |-> 1, confirmTimes |-> 3],
     [coin |-> "usdt", network |-> "ERC20", status |-> 1, confirmTimes |-> 12],
     [coin |-> "USDT", network |-> "ERC20", status |-> 0, confirmTimes |-> 12],
     [coin |-> "BTC", network |-> "ERC20", status |-> 1, confirmTimes |-> 12],
     [coin |-> "USDT", network |-> "BEP20", status |-> 1, confirmTimes |-> 2],
     [coin |-> "USDT", network |-> "TRC20", status |-> 1, confirmTimes |-> 12],
     [coin |-> "USDT", network |-> "SOL", status |-> 1, confirmTimes |-> 1]}

ReadyKind == [coin |-> "USDT", network |-> "ERC20", status |-> 1, confirmTimes |-> 12]

SecondAmounts == {Dec(10, 0), Dec(20, 5)}

ExchangeRecord(t, kind, amount) ==
    [txId |-> t, coin |-> kind.coin, network |-> kind.network, amount |-> amount,
     status |-> kind.status, address |-> "A", addressTag |-> None,
     insertTime |-> insertTimeOf[t], confirmTimes |-> kind.confirmTimes]

NoTest == [pc |-> "off"]

\* PollerService.__init__: the service is constructed and run() has not been
\* called.
RunOff ==
    [pc |-> "off", running |-> FALSE, consecutive_errors |-> 0,
     start_ms |-> 0, end_ms |-> 0, window_start |-> 0, window_end |-> 0,
     slept |-> 0,
     stop_requested |-> FALSE]    \* the service has been asked to shut down

Workers == {"w1", "w2"}

\* A worker process at the top of its loop, its Prometheus counters at zero.
WorkerIdle ==
    [pc |-> "select", rowid |-> 0, row |-> NoRow, success |-> FALSE, err |-> None,
     webhook_success_total |-> 0, webhook_fail_total |-> 0]

\* No replica has started: PollerService.__init__ and a fresh process.
PollersIdle ==
    /\ pc = [p \in Pollers |-> "idle"]
    /\ queue = [p \in Pollers |-> <<>>]
    /\ tx = [p \in Pollers |-> EmptyTx]
    /\ cands = [p \in Pollers |-> {}]
    /\ todo = [p \in Pollers |-> {}]
    /\ tgt = [p \in Pollers |-> NoTarget]
    /\ res = [p \in Pollers |-> "none"]
    /\ met = [p \in Pollers |-> ZeroMetrics]
    /\ polls = 0
    /\ faults = 0
    /\ run = RunOff

\* No webhook worker has started, and no webhook has left.
WorkersIdle ==
    /\ wk = [w \in Workers |-> WorkerIdle]
    /\ net = [clock |-> 0, posts |-> <<>>, oks |-> <<>>, fails |-> <<>>]

Init ==
    /\ invoices = InitInvoices
    /\ deposit_raw = <<>>
    /\ payments = {}
    /\ ledger_entries = <<>>
    /\ webhook_queue = <<>>
    /\ audit_logs = <<>>
    /\ system_events = <<>>
    /\ checkpoint = NoRow
    /\ locks = [i \in DOMAIN InitInvoices |-> NoOwner]
    /\ \E k1 \in DepositKinds, a1 \in DepositAmounts, a2 \in SecondAmounts :
         exchange = ("t1" :> ExchangeRecord("t1", k1, a1)) @@
                    ("t2" :> ExchangeRecord("t2", ReadyKind, a2))
    /\ PollersIdle
    /\ WorkersIdle
    /\ test = NoTest
    /\ req = <<>>

----------------------------------------------------------------------------
\* 0001_initial.py: the append-only triggers

\* lines 195-196: BEFORE UPDATE OR DELETE ... FOR EACH ROW on both tables.
APPEND_ONLY_TRIGGERS ==
    {[table |-> "ledger_entries", events |-> {"UPDATE", "DELETE"}],
     [table |-> "audit_logs", events |-> {"UPDATE", "DELETE"}]}

\* The triggers created BEFORE UPDATE only.
prevent_update_only(table, op) ==
    \E t \in APPEND_ONLY_TRIGGERS : t.table = table /\ op = "UPDATE"

\* lines 185-192: prevent_update_delete() raises for the row of a statement
\* whose table and event a trigger names.
prevent_update_delete(table, op) ==
    \E t \in APPEND_ONLY_TRIGGERS : t.table = table /\ op \in t.events

\* What the statement does to the table when no trigger stops it.
StatementApplied(table, rows, op, i) ==
    IF op = "DELETE"
    THEN SubSeq(rows, 1, i - 1) \o SubSeq(rows, i + 1, Len(rows))
    ELSE IF table = "ledger_entries"
         THEN [rows EXCEPT ![i] = [@ EXCEPT !.change_amount = 0]]
         ELSE [rows EXCEPT ![i] = [@ EXCEPT !.action = "edited"]]

\* Some session (an operator, a script, any code with the connection)
\* issues UPDATE or DELETE for one committed row of ledger_entries or
\* audit_logs.  The trigger raises, the statement fails and its
\* transaction is rolled back; without a trigger the statement commits.
AppendOnlyAttempt ==
    /\ faults < MaxFaults
    /\ \E table \in {"ledger_entries", "audit_logs"}, op \in {"UPDATE", "DELETE"} :
         LET rows == IF table = "ledger_entries" THEN ledger_entries ELSE audit_logs
         IN  \E i \in DOMAIN rows :
               IF prevent_update_delete(table, op)
               THEN /\ faults' = faults + 1
                    /\ UNCHANGED <<ledger_entries, audit_logs>>
               ELSE /\ faults' = faults
                    /\ ledger_entries' = IF table = "ledger_entries"
                                         THEN StatementApplied(table, rows, op, i)
                                         ELSE ledger_entries
                    /\ audit_logs' = IF table = "audit_logs"
                                     THEN StatementApplied(table, rows, op, i)
                                     ELSE audit_logs
    /\ UNCHANGED <<invoices, deposit_raw, payments, webhook_queue, system_events,
                   checkpoint, locks, exchange, pollervars, polls, test, req,
                   workervars, run>>

Next ==
    \/ \E p \in Pollers : Fetch(p)
    \/ \E p \in Pollers : Ingest(p)
    \/ \E p \in Pollers : MatchStart(p)
    \/ \E p \in Pollers : ExactStep(p)
    \/ \E p \in Pollers : DiffPass(p)
    \/ \E p \in Pollers : Credit1(p)
    \/ \E p \in Pollers : Credit2(p)
    \/ \E p \in Pollers : Commit(p)
    \/ \E p \in Pollers : DbFail(p)
    \/ \E p \in Pollers : MatcherRaises(p)
    \/ \E p \in Pollers : Crash(p)
    \/ \E t \in TxIds : Confirm(t)
    \/ AppendOnlyAttempt

Spec == Init /\ [][Next]_vars

\* ---- two matcher transactions waiting for each other's row locks

\* Transaction p waits at line 114 for a row lock that q holds: p is in the
\* exact pass and every candidate it has yet to visit is locked by another
\* transaction, one of them by q.
WaitsFor(p, q) ==
    /\ pc[p] = "exact"
    /\ todo[p] # {}
    /\ \A c \in todo[p] : ~CanLock(p, c)
    /\ \E c \in todo[p] : locks[c] = q

Deadlocked(p) == \E q \in Pollers \ {p} : WaitsFor(p, q) /\ WaitsFor(q, p)

\* The store finds the cycle and aborts one of the waiting transactions: its
\* SELECT ... FOR UPDATE (line 114) raises, processor.py lines 159-162
\* re-raise, the transaction is aborted, and run_once_window rolls back and
\* goes on with the next deposit (service.py lines 88-90).
DeadlockVictim(p) ==
    /\ Deadlocked(p)
    /\ RollbackAndContinue(p)
    /\ UNCHANGED <<invoices, deposit_raw, payments, ledger_entries, webhook_queue,
                   audit_logs, system_events, checkpoint, exchange, met, polls, faults,
                   test, req, workervars, run>>

\* The steps of replica p's per-deposit transaction.
TransactionStep(p) ==
    \/ Ingest(p)
    \/ MatchStart(p)
    \/ ExactStep(p)
    \/ DiffPass(p)
    \/ Credit1(p)
    \/ Credit2(p)
    \/ Commit(p)

MatchFairNext ==
    \/ \E p \in Pollers : Fetch(p)
    \/ \E p \in Pollers : TransactionStep(p)
    \/ \E p \in Pollers : DeadlockVictim(p)

\* Two replicas with no injected fault.  Every await of a transaction
\* returns unless it waits for a lock, and the store's deadlock detector runs.
SpecMatchFair ==
    /\ Init
    /\ [][MatchFairNext]_vars
    /\ \A p \in Pollers : WF_vars(TransactionStep(p))
    /\ \A p \in Pollers : WF_vars(DeadlockVictim(p))

\* The matcher over deposits that differ in address and address_tag: t1 is
\* sent to address A or B, with no tag, an empty tag, the tag of invoice 3005
\* or a tag no invoice has; t2 is an untagged deposit to address A.
MatchAddresses == {"A", "B"}

MatchTags == {None, "", "memo", "other"}

MatchKinds == {ReadyKind, [coin |-> "USDT", network |-> "ERC20", status |-> 1, confirmTimes |-> 3]}

MatchAmounts == {Dec(10, 0), Dec(20, 0)}

MatchInit ==
    /\ invoices = InitInvoices
    /\ deposit_raw = <<>>
    /\ payments = {}
    /\ ledger_entries = <<>>
    /\ webhook_queue = <<>>
    /\ audit_logs = <<>>
    /\ system_events = <<>>
    /\ checkpoint = NoRow
    /\ locks = [i \in DOMAIN InitInvoices |-> NoOwner]
    /\ \E k1 \in MatchKinds, a1 \in MatchAmounts, address \in MatchAddresses,
          tag \in MatchTags :
         exchange = ("t1" :> [ExchangeRecord("t1", k1, a1) EXCEPT
                                !.address = address, !.addressTag = tag]) @@
                    ("t2" :> ExchangeRecord("t2", ReadyKind, Dec(10, 0)))
    /\ PollersIdle
    /\ WorkersIdle
    /\ test = NoTest
    /\ req = <<>>

SpecMatch == MatchInit /\ [][Next]_vars

----------------------------------------------------------------------------
\* test_ingest_idempotent.py: ingest_deposit called twice for one record,
\* inside one session.begin() block as the test does, or in two blocks

NoOut == [raised |-> FALSE, inserted |-> FALSE, rec |-> NoRow, tx |-> EmptyTx]

\* lines 23-24 of the test: the first call
TestIngestFirst ==
    /\ test.pc = "first"
    /\ LET out == ingest_deposit(test.tx, test.dep) IN
         test' = IF out.raised
                 THEN [test EXCEPT !.pc = "done", !.raised = TRUE, !.tx = EmptyTx]
                 ELSE [test EXCEPT !.pc = IF test.mode = "two" THEN "between" ELSE "second",
                                   !.out1 = out, !.tx = out.tx]
    /\ UNCHANGED <<dbvars, exchange, pollervars, polls, faults, req, workervars, run>>

\* The first block is left and a second one is opened.
TestCommitFirst ==
    /\ test.pc = "between"
    /\ deposit_raw' = test.tx.rows @@ deposit_raw
    /\ test' = [test EXCEPT !.pc = "second", !.tx = EmptyTx]
    /\ UNCHANGED <<invoices, payments, ledger_entries, webhook_queue, audit_logs,
                   system_events, checkpoint, locks, exchange, pollervars, polls,
                   faults, req, workervars, run>>

\* lines 26-27 of the test: the second call; an exception leaves the block,
\* which rolls the transaction back
TestIngestSecond ==
    /\ test.pc = "second"
    /\ LET out == ingest_deposit(test.tx, test.dep) IN
         test' = IF out.raised
                 THEN [test EXCEPT !.pc = "done", !.raised = TRUE, !.tx = EmptyTx]
                 ELSE [test EXCEPT !.pc = "end", !.out2 = out, !.tx = out.tx]
    /\ UNCHANGED <<dbvars, exchange, pollervars, polls, faults, req, workervars, run>>

\* The block is left without an exception: commit.
TestCommit ==
    /\ test.pc = "end"
    /\ deposit_raw' = test.tx.rows @@ deposit_raw
    /\ test' = [test EXCEPT !.pc = "done", !.tx = EmptyTx]
    /\ UNCHANGED <<invoices, payments, ledger_entries, webhook_queue, audit_logs,
                   system_events, checkpoint, locks, exchange, pollervars, polls,
                   faults, req, workervars, run>>

\* The records the calls are made with: any kind and amount, with or without txId.
TestDeposits ==
    {ExchangeRecord(t, k, a) : t \in TxIds, k \in DepositKinds, a \in DepositAmounts}
    \cup {[ExchangeRecord("t1", k, a) EXCEPT !.txId = None] :
             k \in DepositKinds, a \in DepositAmounts}

\* The deposit_raw table before the test: empty, or holding the row of t1.
TestStores ==
    {<<>>, "t1" :> DepositRawOf(ExchangeRecord("t1", ReadyKind, Dec(10, 0)))}

IngestInit ==
    /\ invoices = InitInvoices
    /\ deposit_raw \in TestStores
    /\ payments = {}
    /\ ledger_entries = <<>>
    /\ webhook_queue = <<>>
    /\ audit_logs = <<>>
    /\ system_events = <<>>
    /\ checkpoint = NoRow
    /\ locks = [i \in DOMAIN InitInvoices |-> NoOwner]
    /\ exchange = ("t1" :> ExchangeRecord("t1", ReadyKind, Dec(10, 0))) @@
                  ("t2" :> ExchangeRecord("t2", ReadyKind, Dec(10, 0)))
    /\ PollersIdle
    /\ WorkersIdle
    /\ \E dep \in TestDeposits, mode \in {"same", "two"} :
         test = [pc |-> "first", mode |-> mode, dep |-> dep, tx |-> EmptyTx,
                 out1 |-> NoOut, out2 |-> NoOut, raised |-> FALSE,
                 fresh |-> dep.txId \notin DOMAIN deposit_raw]
    /\ req = <<>>

IngestNext ==
    \/ TestIngestFirst
    \/ TestCommitFirst
    \/ TestIngestSecond
    \/ TestCommit

SpecIngest == IngestInit /\ [][IngestNext]_vars

----------------------------------------------------------------------------
\* invoices.py: create_invoice, one process per request r

MAX_INVOICE_CREATION_ATTEMPTS == 5

\* line 74: 1 << 128
two128 == 2 ^ UuidBits

\* line 79
CandidateUuidNoWrap(base_uuid_int, attempt) == base_uuid_int + attempt

\* The attempt number left out of the sum: every attempt probes the same id.
CandidateUuidWithoutAttempt(base_uuid_int, attempt) == base_uuid_int % two128

CandidateUuid(base_uuid_int, attempt) == (base_uuid_int + attempt) % two128

\* lines 81-92: the Invoice of an attempt
CandidateInvoice(r, cand) ==
    InvoiceRow(r.merchant_id,
               adjusted_amount_for_invoice(r.base_amount, cand, r.network, AMOUNT_DIFF_K),
               r.network, r.address, r.address_tag, "pending")

\* lines 124-133: the Invoice written after exhaustion
FailureInvoice(r) ==
    InvoiceRow(r.merchant_id, r.base_amount, r.network, r.address, r.address_tag,
               "pending_manual_resolution")

ExhaustedAudit(r) ==
    [actor |-> "invoice_service", action |-> "invoice_creation_collision_exhausted",
     merchant_id |-> r.merchant_id, base_amount |-> r.base_amount]

ExhaustedEvent(r) ==
    [source |-> "invoice_service", event_type |-> "collision_exhausted",
     merchant_id |-> r.merchant_id, base_amount |-> r.base_amount]

\* models.py: ux_invoices_merchant_amount_address, unique where address is
\* not null, against the rows of the table rows
UxInvoicesNotEnforced(rows, row) == FALSE

UxInvoicesViolated(rows, row) ==
    /\ row.address # None
    /\ \E i \in DOMAIN rows :
         /\ rows[i].address # None
         /\ rows[i].merchant_id = row.merchant_id
         /\ rows[i].publish_amount = row.publish_amount
         /\ rows[i].address = row.address

\* The primary key of invoices
PkInvoicesViolated(rows, id) == id \in DOMAIN rows

\* The INSERT raises IntegrityError
InvoiceIntegrityError(id, row) ==
    PkInvoicesViolated(invoices, id) \/ UxInvoicesViolated(invoices, row)

\* The INSERT waits for another request's open transaction, which holds an
\* uncommitted row with the same key.
InvoiceInsertWaits(r, id, row) ==
    \E q \in DOMAIN req \ {r} :
        PkInvoicesViolated(req[q].ins, id) \/ UxInvoicesViolated(req[q].ins, row)

\* gen_random_uuid() for the id of the failure invoice: an id of its own
FreshInvoiceId(r) == two128 + (IF r = "r1" THEN 1 ELSE 2)

\* lines 140-144: HTTPException(409) is raised inside the try block whose
\* except Exception answers with HTTPException(500)
ExhaustedResponse == "500"

\* lines 93-97 and 108-112: add and flush of one attempt
InvAttemptFlush(r) ==
    /\ req[r].pc = "attempt"
    /\ LET id == CandidateUuid(req[r].base_uuid_int, req[r].attempt)
           row == CandidateInvoice(req[r], id)
       IN  /\ ~InvoiceInsertWaits(r, id, row)
           /\ IF InvoiceIntegrityError(id, row)
              THEN req' = [req EXCEPT
                             ![r].attempt = @ + 1,
                             ![r].pc = IF req[r].attempt + 1 < MAX_INVOICE_CREATION_ATTEMPTS
                                       THEN "attempt" ELSE "fallback"]
              ELSE req' = [req EXCEPT ![r].ins = (id :> row), ![r].pc = "flushed"]
    /\ UNCHANGED <<dbvars, exchange, pollervars, polls, faults, test, workervars, run>>

\* lines 94-107: the block is left, the row is committed and returned
InvAttemptCommit(r) ==
    /\ req[r].pc = "flushed"
    /\ invoices' = req[r].ins @@ invoices
    /\ req' = [req EXCEPT ![r].pc = "done", ![r].ins = <<>>, ![r].resp = "201",
                          ![r].invoice_id = CandidateUuid(req[r].base_uuid_int, req[r].attempt)]
    /\ UNCHANGED <<deposit_raw, payments, ledger_entries, webhook_queue, audit_logs,
                   system_events, checkpoint, locks, exchange, pollervars, polls,
                   faults, test, workervars, run>>

\* lines 120-139: the failure invoice, the AuditLog and the SystemEvent are
\* added and flushed
InvFallbackFlush(r) ==
    /\ req[r].pc = "fallback"
    /\ LET id == FreshInvoiceId(r)
           row == FailureInvoice(req[r])
       IN  /\ ~InvoiceInsertWaits(r, id, row)
           /\ IF InvoiceIntegrityError(id, row)
              THEN req' = [req EXCEPT ![r].pc = "done", ![r].resp = "500"]
              ELSE req' = [req EXCEPT ![r].ins = (id :> row), ![r].pc = "fallback_flushed"]
    /\ UNCHANGED <<dbvars, exchange, pollervars, polls, faults, test, workervars, run>>

\* lines 122-144: the block is left, the three rows are committed, and the
\* request answers
InvFallbackCommit(r) ==
    /\ req[r].pc = "fallback_flushed"
    /\ invoices' = req[r].ins @@ invoices
    /\ audit_logs' = Append(audit_logs, ExhaustedAudit(req[r]))
    /\ system_events' = Append(system_events, ExhaustedEvent(req[r]))
    /\ req' = [req EXCEPT ![r].pc = "done", ![r].ins = <<>>, ![r].resp = ExhaustedResponse,
                          ![r].wrote_failure = TRUE]
    /\ UNCHANGED <<deposit_raw, payments, ledger_entries, webhook_queue,
                   checkpoint, locks, exchange, pollervars, polls, faults, test, workervars, run>>

\* lines 113-116 and 141-144: a statement fails with something else than
\* IntegrityError; the transaction is rolled back and the request answers 500
InvDbFail(r) ==
    /\ req[r].pc \in {"attempt", "flushed", "fallback", "fallback_flushed"}
    /\ faults < MaxFaults
    /\ faults' = faults + 1
    /\ req' = [req EXCEPT ![r].pc = "done", ![r].ins = <<>>, ![r].resp = "500"]
    /\ UNCHANGED <<dbvars, exchange, pollervars, polls, test, workervars, run>>

Requests == {"r1", "r2"}

\* uuid.uuid4().int: a low value, and the highest, whose candidates wrap
\* past 2^128 - 1
BaseUuids == {1, two128 - 1}

\* Invoices of merchant m1 on address A that earlier requests with base
\* amount 10.000 have created: the five with index 1..5, and the one with index 0.
Blockers ==
    [i \in 1001..1005 |-> InvoiceRow("m1", Dec(10, i - 1000), "ERC20", "A", None, "pending")]

BaseRow == 1000 :> InvoiceRow("m1", Dec(10, 0), "ERC20", "A", None, "pending")

ExistingInvoices == {<<>>, Blockers, Blockers @@ BaseRow}

NewRequest(base_amount, address, base_uuid_int) ==
    [pc |-> "attempt", merchant_id |-> "m1", base_amount |-> base_amount,
     network |-> "ERC20", address |-> address, address_tag |-> None,
     base_uuid_int |-> base_uuid_int, attempt |-> 0, ins |-> <<>>,
     resp |-> "none", invoice_id |-> 0, wrote_failure |-> FALSE]

RequestInputs ==
    {NewRequest(b, a, u) : b \in {Dec(10, 0), Dec(10, 1)}, a \in {"A", None}, u \in BaseUuids}

InvoiceInit ==
    /\ invoices \in ExistingInvoices
    /\ deposit_raw = <<>>
    /\ payments = {}
    /\ ledger_entries = <<>>
    /\ webhook_queue = <<>>
    /\ audit_logs = <<>>
    /\ system_events = <<>>
    /\ checkpoint = NoRow
    /\ locks = [i \in DOMAIN invoices |-> NoOwner]
    /\ exchange = ("t1" :> ExchangeRecord("t1", ReadyKind, Dec(10, 0))) @@
                  ("t2" :> ExchangeRecord("t2", ReadyKind, Dec(10, 0)))
    /\ PollersIdle
    /\ WorkersIdle
    /\ test = NoTest
    /\ req \in [Requests -> RequestInputs]

InvoiceNext ==
    \/ \E r \in Requests : InvAttemptFlush(r)
    \/ \E r \in Requests : InvAttemptCommit(r)
    \/ \E r \in Requests : InvFallbackFlush(r)
    \/ \E r \in Requests : InvFallbackCommit(r)
    \/ \E r \in Requests : InvDbFail(r)

SpecInvoice == InvoiceInit /\ [][InvoiceNext]_vars

----------------------------------------------------------------------------
\* invoices.py: the candidates one request probes when every attempt is
\* rejected (lines 77-81 and the continue of the except branch), for the
\* values the settings INVOICE_CREATION_MAX_ATTEMPTS and AMOUNT_DIFF_K may
\* hold (lines 20-21)

\* Largest INVOICE_CREATION_MAX_ATTEMPTS followed.
MaxProbes == 10

ProbeAttempts == 1..MaxProbes

\* AMOUNT_DIFF_K: within the precision of every network, and beyond ERC20's.
ProbeKs == {1, 2, AMOUNT_DIFF_K, FracDigits}

\* base_uuid_int: low values, and values whose candidates pass 2^128 - 1.
ProbeUuids == {1, 998, two128 - 1, two128 - 3}

ProbeBases == {Dec(10, 0), Dec(1, 234)}

ProbeNetworks == {"ERC20", "BEP20"}

\* lines 79-81: the candidate of one attempt, its index and its amount
ProbeOf(t, attempt) ==
    LET cand == CandidateUuid(t.base_uuid_int, attempt)
    IN  [id |-> cand,
         idx |-> invoice_index_from_uuid(cand, t.k),
         amount |-> adjusted_amount_for_invoice(t.base_amount, cand, t.network, t.k)]

ProbeAttempt ==
    /\ test.pc = "probe"
    /\ test.attempt < test.max_attempts
    /\ test' = [test EXCEPT !.probes = Append(@, ProbeOf(test, test.attempt)),
                            !.attempt = @ + 1]
    /\ UNCHANGED <<dbvars, exchange, pollervars, polls, faults, req, workervars, run>>

\* range(MAX_INVOICE_CREATION_ATTEMPTS) is exhausted: the loop is left
ProbeExhausted ==
    /\ test.pc = "probe"
    /\ test.attempt = test.max_attempts
    /\ test' = [test EXCEPT !.pc = "exhausted"]
    /\ UNCHANGED <<dbvars, exchange, pollervars, polls, faults, req, workervars, run>>

ProbeInit ==
    /\ invoices = <<>>
    /\ deposit_raw = <<>>
    /\ payments = {}
    /\ ledger_entries = <<>>
    /\ webhook_queue = <<>>
    /\ audit_logs = <<>>
    /\ system_events = <<>>
    /\ checkpoint = NoRow
    /\ locks = <<>>
    /\ exchange = <<>>
    /\ PollersIdle
    /\ WorkersIdle
    /\ req = <<>>
    /\ \E base_amount \in ProbeBases, network \in ProbeNetworks,
          base_uuid_int \in ProbeUuids, k \in ProbeKs, max_attempts \in ProbeAttempts :
         test = [pc |-> "probe", base_amount |-> base_amount, network |-> network,
                 base_uuid_int |-> base_uuid_int, k |-> k,
                 max_attempts |-> max_attempts, attempt |-> 0, probes |-> <<>>]

ProbeNext ==
    \/ ProbeAttempt
    \/ ProbeExhausted

SpecProbe == ProbeInit /\ [][ProbeNext]_vars



-----------------------------------------------------------------------------
\* The webhook dispatcher (worker.py)
\*
\* worker_loop opens one session per iteration, selects the oldest pending
\* row that is due, loads it, calls deliver_webhook, writes the outcome to
\* the row object, flushes, and leaves the `async with` block.  Nothing in
\* the loop calls commit, and AsyncSessionLocal (session.py, lines 6-8) has
\* no autocommit, so leaving the block rolls the flushed UPDATE back.

MAX_ATTEMPTS == 10
BACKOFF_BASE == 1
BACKOFF_CAP == 600

\* Deliveries of one row that the model follows before it stops counting.
MaxDeliveries == 11
\* Seconds the clock may advance.
MaxClock == 1

Min(a, b) == IF a <= b THEN a ELSE b

\* worker.py line 111.
backoff(attempts) == Min(BACKOFF_CAP, BACKOFF_BASE * (2 ^ (attempts - 1)))

\* Lines 75-85: status = 'pending' AND (next_attempt_at IS NULL OR
\* next_attempt_at <= now()) ORDER BY created_at ASC LIMIT 1.  The queue is
\* kept in created_at order; the statement has no locking clause.
DueRows ==
    {i \in DOMAIN webhook_queue :
        /\ webhook_queue[i].status = "pending"
        /\ \/ webhook_queue[i].next_attempt_at = None
           \/ webhook_queue[i].next_attempt_at <= net.clock}

OldestDue == CHOOSE i \in DueRows : \A j \in DueRows : i <= j

\* What the merchant endpoint can do with one POST (lines 57-63).
Answers == {"200", "500", "ConnectTimeout"}

\* deliver_webhook's return value for an answer: (success, err).
DeliveryResult(answer) ==
    IF answer = "200" THEN <<TRUE, None>>
    ELSE IF answer = "500" THEN <<FALSE, "status_500">>
    ELSE <<FALSE, answer>>

\* Lines 93-97 and 101-113: the row object after the outcome is written to it.
RowAfterDelivery(row, success, err, now) ==
    IF success
    THEN [row EXCEPT !.status = "success",
                     !.attempts = row.attempts + 1,
                     !.last_error = None]
    ELSE LET attempts == row.attempts + 1
         IN  IF attempts >= MAX_ATTEMPTS
             THEN [row EXCEPT !.attempts = attempts,
                              !.last_error = err,
                              !.status = "failed"]
             ELSE [row EXCEPT !.attempts = attempts,
                              !.last_error = err,
                              !.next_attempt_at = now + backoff(attempts),
                              !.status = "pending"]

Bump(f, i) == [f EXCEPT ![i] = @ + 1]

\* Lines 72-88: a new session, the SELECT, and the row id it returned.  With
\* no row due the worker sleeps and starts over, which changes nothing.
WorkerSelect(w) ==
    /\ wk[w].pc = "select"
    /\ DueRows # {}
    /\ wk' = [wk EXCEPT ![w].pc = "load", ![w].rowid = OldestDue]
    /\ UNCHANGED <<dbvars, exchange, pollervars, polls, faults, test, req, net, run>>

\* Line 90, reading `select` as sqlalchemy.select (the name the other modules
\* import): the session gets its own copy of the committed row.
WorkerLoad(w) ==
    /\ wk[w].pc = "load"
    /\ wk' = [wk EXCEPT ![w].pc = "deliver", ![w].row = webhook_queue[wk[w].rowid]]
    /\ UNCHANGED <<dbvars, exchange, pollervars, polls, faults, test, req, net, run>>

\* Line 90 as the file stands: worker.py never imports `select`, so the name
\* lookup raises NameError; the session closes, the exception leaves
\* worker_loop and asyncio.run (line 124), and the process exits.
WorkerNameError(w) ==
    /\ wk[w].pc = "load"
    /\ wk' = [wk EXCEPT ![w].pc = "exited", ![w].rowid = 0]
    /\ UNCHANGED <<dbvars, exchange, pollervars, polls, faults, test, req, net, run>>

\* Lines 34-63, deliver_webhook.  A row without a URL in its headers is not
\* sent at all; otherwise one POST leaves and the endpoint answers.
WorkerDeliver(w) ==
    /\ wk[w].pc = "deliver"
    /\ LET i == wk[w].rowid
       IN  /\ net.oks[i] + net.fails[i] < MaxDeliveries
           /\ IF wk[w].row.webhook_url = None
              THEN /\ wk' = [wk EXCEPT ![w].pc = "update",
                                       ![w].success = FALSE,
                                       ![w].err = "no_webhook_url"]
                   /\ net' = [net EXCEPT !.fails = Bump(@, i)]
              ELSE \E answer \in Answers :
                     LET r == DeliveryResult(answer)
                     IN  /\ wk' = [wk EXCEPT ![w].pc = "update",
                                             ![w].success = r[1],
                                             ![w].err = r[2]]
                         /\ net' = [net EXCEPT
                                !.posts = Bump(@, i),
                                !.oks = IF r[1] THEN Bump(@, i) ELSE @,
                                !.fails = IF r[1] THEN @ ELSE Bump(@, i)]
    /\ UNCHANGED <<dbvars, exchange, pollervars, polls, faults, test, req, run>>

\* Lines 93-116: the outcome goes to the session's row and is flushed; the
\* UPDATE takes the row lock, so it waits while another session holds a
\* flushed UPDATE of the same row.  The Prometheus counters belong to the
\* process and are not part of the transaction.
WorkerUpdate(w) ==
    /\ wk[w].pc = "update"
    /\ \A o \in Workers \ {w} : ~(wk[o].pc = "close" /\ wk[o].rowid = wk[w].rowid)
    /\ wk' = [wk EXCEPT
            ![w].pc = "close",
            ![w].row = RowAfterDelivery(wk[w].row, wk[w].success, wk[w].err, net.clock),
            ![w].webhook_success_total = IF wk[w].success THEN @ + 1 ELSE @,
            ![w].webhook_fail_total = IF wk[w].success THEN @ ELSE @ + 1]
    /\ UNCHANGED <<dbvars, exchange, pollervars, polls, faults, test, req, net, run>>

\* Line 72's `async with` block ends: AsyncSession.close() rolls back the
\* transaction that was never committed, so the flushed UPDATE is discarded
\* and the stored row is what it was.  Line 117 then starts the next iteration.
WorkerClose(w) ==
    /\ wk[w].pc = "close"
    /\ wk' = [wk EXCEPT ![w].pc = "select", ![w].rowid = 0, ![w].row = NoRow,
                        ![w].success = FALSE, ![w].err = None]
    /\ UNCHANGED <<dbvars, exchange, pollervars, polls, faults, test, req, net, run>>

\* Time passes.
Tick ==
    /\ net.clock < MaxClock
    /\ net' = [net EXCEPT !.clock = @ + 1]
    /\ UNCHANGED <<dbvars, exchange, pollervars, polls, faults, test, req, wk, run>>

\* The deposit the matcher credited to invoice 1001 before the workers
\* start, and the webhook row it enqueued for it (headers={}).
CreditedDeposit == DepositRawOf(ExchangeRecord("t2", ReadyKind, Dec(10, 0)))
MatcherWebhook == WebhookRow(1001, CreditedDeposit, FALSE)

\* A row whose headers carry the merchant's URL, as deliver_webhook expects
\* (line 38) and as an operator or another service stores it.
HOOK_URL == "https://merchant.example/hook"
UrlWebhook(key) ==
    [MatcherWebhook EXCEPT !.webhook_url = HOOK_URL, !.idempotency_key = key]

WorkerQueues ==
    {<<MatcherWebhook>>,
     <<UrlWebhook("k1")>>,
     <<MatcherWebhook, UrlWebhook("k1")>>,
     <<UrlWebhook("k1"), MatcherWebhook>>,
     <<UrlWebhook("k1"), UrlWebhook("k2")>>}

\* A deposit the exchange still reports as pending (status 0).
UnconfirmedKind == [coin |-> "USDT", network |-> "ERC20", status |-> 0, confirmTimes |-> 12]

\* The store one poll after Init, when deposit t2 has been credited to
\* invoice 1001 and committed (Fetch .. Credit1, Credit2, Commit) while t1
\* is still unconfirmed at the exchange; the workers start from there.
WorkerInit ==
    /\ invoices = [InitInvoices EXCEPT ![1001].status = "paid"]
    /\ deposit_raw = ("t2" :> [CreditedDeposit EXCEPT !.processed = TRUE])
    /\ payments = {PaymentRow(1, 1001, CreditedDeposit, FALSE)}
    /\ ledger_entries = <<LedgerRow(1001, CreditedDeposit, 1)>>
    /\ webhook_queue \in WorkerQueues
    /\ audit_logs = <<>>
    /\ system_events = <<>>
    /\ checkpoint = CheckpointOf(CreditedDeposit)
    /\ locks = [i \in DOMAIN InitInvoices |-> NoOwner]
    /\ exchange = ("t1" :> ExchangeRecord("t1", UnconfirmedKind, Dec(10, 0))) @@
                  ("t2" :> ExchangeRecord("t2", ReadyKind, Dec(10, 0)))
    /\ pc = [p \in Pollers |-> "idle"]
    /\ queue = [p \in Pollers |-> <<>>]
    /\ tx = [p \in Pollers |-> EmptyTx]
    /\ cands = [p \in Pollers |-> {}]
    /\ todo = [p \in Pollers |-> {}]
    /\ tgt = [p \in Pollers |-> NoTarget]
    /\ res = [p \in Pollers |-> "none"]
    /\ met = [p \in Pollers |-> ZeroMetrics]
    /\ polls = 1
    /\ faults = 0
    /\ test = NoTest
    /\ req = <<>>
    /\ run = RunOff
    /\ wk = [w \in Workers |-> WorkerIdle]
    /\ net = [clock |-> 0,
              posts |-> [i \in DOMAIN webhook_queue |-> 0],
              oks |-> [i \in DOMAIN webhook_queue |-> 0],
              fails |-> [i \in DOMAIN webhook_queue |-> 0]]

WorkerStep(w) ==
    \/ WorkerSelect(w)
    \/ WorkerLoad(w)
    \/ WorkerDeliver(w)
    \/ WorkerUpdate(w)
    \/ WorkerClose(w)

WorkerNext ==
    \/ \E w \in Workers : WorkerStep(w)
    \/ \E w \in Workers : WorkerNameError(w)
    \/ Tick

SpecWorker == WorkerInit /\ [][WorkerNext]_vars

\* Each worker process is scheduled again and again: its loop has no exit
\* and every await in it returns.
SpecWorkerFair == SpecWorker /\ \A w \in Workers : WF_vars(WorkerStep(w))

\* The worker processes are asked to shut down.  worker_loop (lines 66-117)
\* reads no flag and handles no signal: the request changes nothing in it.
WorkerShutdown ==
    /\ ~run.stop_requested
    /\ run' = [run EXCEPT !.stop_requested = TRUE]
    /\ UNCHANGED <<dbvars, exchange, pollervars, polls, faults, test, req, workervars>>

SpecWorkerShutdown ==
    /\ WorkerInit
    /\ [][WorkerNext \/ WorkerShutdown]_vars
    /\ \A w \in Workers : WF_vars(WorkerStep(w))

-----------------------------------------------------------------------------
\* adjusted_amount_for_invoice as a function: test_amount_diff.py and any
\* other caller.  One thread calls it with the arguments under test, with
\* other arguments, and runs other code that sets the decimal context, in
\* any order.

\* Calls followed in one run.
MaxCalls == 3

\* A base amount that uses the last of the FracDigits fractional digits,
\* more digits than the six of ERC20 and TRC20: 10.0000005 for FracDigits = 7.
OverPreciseBase == Dec(10, 0) + 5

AmountBases == {Dec(10, 0), Dec(1, 234), OverPreciseBase}
AmountIds == {0, 1, 5, 999, 1000, 1234, (2 ^ UuidBits) - 1}
AmountNetworks == {"ERC20", "erc20", "BEP20", "SOL", None}
AmountKs == {0, 1, AMOUNT_DIFF_K, FracDigits}

AmountArgs(base_amount, invoice_id, network, k) ==
    [base_amount |-> base_amount, invoice_id |-> invoice_id,
     network |-> network, k |-> k]

\* The arguments of test_amount_diff_deterministic, the UUID shortened.
OtherArgs == AmountArgs(Dec(10, 0), 678, "ERC20", AMOUNT_DIFF_K)

\* prec values other code may leave in the context.
OtherPrecs == {3, DECIMAL_DEFAULT_PREC}

NoCall == [args |-> NoRow, value |-> 0, raised |-> FALSE, delta |-> 0, ctx |-> 0]

\* One evaluation in the current context.
Evaluate(args) ==
    LET r == adjusted_amount_in_context(args.base_amount, args.invoice_id,
                                        args.network, args.k, test.ctx)
    IN  [args |-> args, value |-> r.value, raised |-> r.raised,
         delta |-> r.delta, ctx |-> r.ctx]

\* adj = adjusted_amount_for_invoice(base, invoice_id, network, k) with the
\* arguments under test (test_amount_diff.py lines 10 and 12).
AmountCall ==
    /\ test.pc = "amount"
    /\ Len(test.log) < MaxCalls
    /\ LET r == Evaluate(test.args)
       IN  test' = [test EXCEPT !.first = IF test.first = NoCall THEN r ELSE @,
                                !.last = r,
                                !.ctx = r.ctx,
                                !.log = Append(@, [call |-> "same", prec |-> r.ctx])]
    /\ UNCHANGED <<dbvars, exchange, pollervars, polls, faults, req, workervars, run>>

\* A call with other arguments in between.
AmountCallOther ==
    /\ test.pc = "amount"
    /\ Len(test.log) < MaxCalls
    /\ LET r == Evaluate(OtherArgs)
       IN  test' = [test EXCEPT !.last = r,
                                !.ctx = r.ctx,
                                !.log = Append(@, [call |-> "other", prec |-> r.ctx])]
    /\ UNCHANGED <<dbvars, exchange, pollervars, polls, faults, req, workervars, run>>

\* Other code of the thread sets getcontext().prec.
SetContext ==
    /\ test.pc = "amount"
    /\ Len(test.log) < MaxCalls
    /\ \E prec \in OtherPrecs :
          test' = [test EXCEPT !.ctx = prec,
                               !.log = Append(@, [call |-> "context", prec |-> prec])]
    /\ UNCHANGED <<dbvars, exchange, pollervars, polls, faults, req, workervars, run>>

AmountInit ==
    /\ invoices = <<>>
    /\ deposit_raw = <<>>
    /\ payments = {}
    /\ ledger_entries = <<>>
    /\ webhook_queue = <<>>
    /\ audit_logs = <<>>
    /\ system_events = <<>>
    /\ checkpoint = NoRow
    /\ locks = <<>>
    /\ exchange = <<>>
    /\ PollersIdle
    /\ WorkersIdle
    /\ req = <<>>
    /\ \E base_amount \in AmountBases, invoice_id \in AmountIds,
          network \in AmountNetworks, k \in AmountKs :
         test = [pc |-> "amount",
                 args |-> AmountArgs(base_amount, invoice_id, network, k),
                 ctx |-> DECIMAL_DEFAULT_PREC,
                 first |-> NoCall,
                 last |-> NoCall,
                 log |-> <<>>]

AmountNext ==
    \/ AmountCall
    \/ AmountCallOther
    \/ SetContext

SpecAmount == AmountInit /\ [][AmountNext]_vars

----------------------------------------------------------------------------
\* service.py: PollerService.run, the outer loop of one replica.  The
\* windows it fetches are handled by the actions of run_once_window above.

\* The replica whose loop is followed.
Runner == "p1"

\* Time in units of one window step: int(time.time() * 1000) while the model
\* runs, POLLER_INITIAL_LOOKBACK_MS and POLLER_WINDOW_MS.
NowMs == 4
LookbackMs == 3
WindowMs == 2
\* Consecutive failed passes the model follows.
MaxErrors == 7

DEFAULT_POLL_INTERVAL == 20
POLLER_BACKOFF_CAP == 300
POLLER_BACKOFF_MAX_EXPONENT == 6

\* line 122: min(300, (2 ** min(consecutive_errors, 6)))
poller_backoff(consecutive_errors) ==
    Min(POLLER_BACKOFF_CAP, 2 ^ Min(consecutive_errors, POLLER_BACKOFF_MAX_EXPONENT))

\* lines 95-101: run() is called
RunStart ==
    /\ run.pc = "off"
    /\ run' = [run EXCEPT !.pc = "top", !.running = TRUE, !.consecutive_errors = 0]
    /\ UNCHANGED <<dbvars, exchange, pollervars, polls, faults, test, req, workervars>>

\* The pass laid out from the lookback every time: the checkpoint loaded at
\* lines 104-106 is not used.
RunTopFromLookback ==
    /\ run.pc = "top"
    /\ IF ~run.running
       THEN run' = [run EXCEPT !.pc = "stopped"]
       ELSE run' = [run EXCEPT !.pc = "window",
                               !.start_ms = NowMs - LookbackMs,
                               !.end_ms = NowMs,
                               !.window_start = NowMs - LookbackMs]
    /\ UNCHANGED <<dbvars, exchange, pollervars, polls, faults, test, req, workervars>>

\* lines 102-111: while self.running, the checkpoint is loaded and the pass
\* is laid out from it
RunTop ==
    /\ run.pc = "top"
    /\ IF ~run.running
       THEN run' = [run EXCEPT !.pc = "stopped"]
       ELSE LET start_ms == IF checkpoint = NoRow
                            THEN NowMs - LookbackMs
                            ELSE checkpoint.last_insert_time_ms
            IN  run' = [run EXCEPT !.pc = "window",
                                   !.start_ms = start_ms,
                                   !.end_ms = NowMs,
                                   !.window_start = start_ms]
    /\ UNCHANGED <<dbvars, exchange, pollervars, polls, faults, test, req, workervars>>

\* line 117, after run_once_window has returned
WindowCompleted(r) ==
    [r EXCEPT !.pc = "window",
              !.window_start = r.window_end + 1,
              !.consecutive_errors = 0]

\* lines 112-115 and 59-69: the next window of the pass is fetched and
\* sorted; an empty window returns at once; after the last window the loop
\* sleeps poll_interval (line 118)
RunWindow ==
    /\ run.pc = "window"
    /\ IF run.window_start < run.end_ms
       THEN LET window_end == Min(run.window_start + WindowMs - 1, run.end_ms) IN
            \E deposits \in get_deposit_history(run.window_start, window_end, MAX_LIMIT) :
              \E deposits_sorted \in SortedByInsertTime(deposits) :
                 /\ queue' = [queue EXCEPT ![Runner] = deposits_sorted]
                 /\ IF deposits_sorted = <<>>
                    THEN /\ run' = WindowCompleted([run EXCEPT !.window_end = window_end])
                         /\ pc' = pc
                    ELSE /\ run' = [run EXCEPT !.pc = "in_window", !.window_end = window_end]
                         /\ pc' = [pc EXCEPT ![Runner] = "ingest"]
       ELSE /\ run' = [run EXCEPT !.pc = "sleep", !.slept = DEFAULT_POLL_INTERVAL]
            /\ UNCHANGED <<pc, queue>>
    /\ UNCHANGED <<dbvars, exchange, tx, cands, todo, tgt, res, met, polls, faults,
                   test, req, workervars>>

\* lines 91-93 and 116-117: the last deposit of the window is done
RunWindowDone ==
    /\ run.pc = "in_window"
    /\ pc[Runner] = "idle"
    /\ run' = WindowCompleted(run)
    /\ UNCHANGED <<dbvars, exchange, pollervars, polls, faults, test, req, workervars>>

\* lines 61-65 and 119-123: the fetch of the window raises (exchange 5xx,
\* timeout); the pass is given up and the loop backs off
RunWindowFails ==
    /\ run.pc = "window"
    /\ run.window_start < run.end_ms
    /\ run.consecutive_errors < MaxErrors
    /\ LET consecutive_errors == run.consecutive_errors + 1 IN
         run' = [run EXCEPT !.pc = "backoff",
                            !.consecutive_errors = consecutive_errors,
                            !.slept = poller_backoff(consecutive_errors)]
    /\ UNCHANGED <<dbvars, exchange, pollervars, polls, faults, test, req, workervars>>

\* asyncio.sleep returns (lines 118 and 123): back to the loop condition
RunWake ==
    /\ run.pc \in {"sleep", "backoff"}
    /\ run' = [run EXCEPT !.pc = "top"]
    /\ UNCHANGED <<dbvars, exchange, pollervars, polls, faults, test, req, workervars>>

\* The owner of the service asks it to stop: self.running = False
RunShutdown ==
    /\ run.pc \notin {"off", "stopped"}
    /\ run.running
    /\ run' = [run EXCEPT !.running = FALSE, !.stop_requested = TRUE]
    /\ UNCHANGED <<dbvars, exchange, pollervars, polls, faults, test, req, workervars>>

\* One replica runs its loop over the store and the exchange of Init.
RunNext ==
    \/ RunStart
    \/ RunTop
    \/ RunWindow
    \/ RunWindowDone
    \/ RunWindowFails
    \/ RunWake
    \/ RunShutdown
    \/ Ingest(Runner)
    \/ MatchStart(Runner)
    \/ ExactStep(Runner)
    \/ DiffPass(Runner)
    \/ Credit1(Runner)
    \/ Credit2(Runner)
    \/ Commit(Runner)
    \/ DbFail(Runner)
    \/ MatcherRaises(Runner)
    \/ \E t \in TxIds : Confirm(t)

\* The store of Init, where invoice 4001, whose publish_amount is the
\* amount-diff value of 1001 and 2001, may also be on their address; the
\* exchange reports t2 in the window of t1 or in the window after it.
RunInit ==
    /\ \E address \in {"A", "B"} :
         invoices = [InitInvoices EXCEPT ![4001].address = address]
    /\ deposit_raw = <<>>
    /\ payments = {}
    /\ ledger_entries = <<>>
    /\ webhook_queue = <<>>
    /\ audit_logs = <<>>
    /\ system_events = <<>>
    /\ checkpoint = NoRow
    /\ locks = [i \in DOMAIN InitInvoices |-> NoOwner]
    /\ \E k1 \in DepositKinds, a1 \in DepositAmounts, a2 \in SecondAmounts,
          later \in {0, WindowMs - 1} :
         exchange = ("t1" :> ExchangeRecord("t1", k1, a1)) @@
                    ("t2" :> [ExchangeRecord("t2", ReadyKind, a2)
                                EXCEPT !.insertTime = @ + later])
    /\ PollersIdle
    /\ WorkersIdle
    /\ test = NoTest
    /\ req = <<>>

SpecRun == RunInit /\ [][RunNext]_vars

----------------------------------------------------------------------------
\* webhook_signing.py: sign_webhook and verify_webhook_signature as
\* functions.  A str is the sequence of its code points, a bytes object the
\* sequence of its bytes; a payload carries its type.

\* str.encode("utf-8"), for code points below 2048
RECURSIVE Utf8(_)
Utf8(chars) ==
    IF chars = <<>> THEN <<>>
    ELSE LET c == Head(chars) IN
         (IF c < 128 THEN <<c>> ELSE <<192 + (c \div 64), 128 + (c % 64)>>)
            \o Utf8(Tail(chars))

\* lines 6-18.  HMAC-SHA256 is taken as a collision-free function of the key
\* and the message: its digest stands for the pair.  The str returned is
\* "sha256=" + hexdigest, with nothing after it.
sign_webhook(payload, timestamp, secret) ==
    LET payload_bytes == IF payload.type = "str" THEN Utf8(payload.data) ELSE payload.data
        message == Utf8(timestamp) \o <<46>> \o payload_bytes
    IN  [hex |-> <<Utf8(secret), message>>, suffix |-> <<>>]

\* hmac.compare_digest on two str: TypeError unless both are ASCII
compare_digest(a, b) ==
    IF \E i \in DOMAIN a.suffix : a.suffix[i] >= 128 THEN "TypeError"
    ELSE IF \E i \in DOMAIN b.suffix : b.suffix[i] >= 128 THEN "TypeError"
    ELSE IF a = b THEN "True" ELSE "False"

\* lines 21-28
verify_webhook_signature(payload, timestamp, secret, signature) ==
    LET expected == sign_webhook(payload, timestamp, secret)
    IN  compare_digest(expected, signature)

\* The arguments of the calls: payloads "3", "2.3", b"3", "é" and its
\* UTF-8 bytes; timestamps "1" and "1.2"; secrets "a", "aa" and "é".
SignPayloads ==
    {[type |-> "str", data |-> <<51>>], [type |-> "str", data |-> <<50, 46, 51>>],
     [type |-> "bytes", data |-> <<51>>], [type |-> "str", data |-> <<233>>],
     [type |-> "bytes", data |-> <<195, 169>>]}
SignTimestamps == {<<49>>, <<49, 46, 50>>}
SignSecrets == {<<97>>, <<97, 97>>, <<233>>}

\* The signatures a receiver may be handed: one made by sign_webhook, or
\* such a one followed by "0" or by "é".
SignSignatures ==
    {[sign_webhook(p, t, s) EXCEPT !.suffix = x] :
        p \in SignPayloads, t \in SignTimestamps, s \in SignSecrets,
        x \in {<<>>, <<48>>, <<233>>}}

SignInit ==
    /\ invoices = InitInvoices
    /\ deposit_raw = <<>>
    /\ payments = {}
    /\ ledger_entries = <<>>
    /\ webhook_queue = <<>>
    /\ audit_logs = <<>>
    /\ system_events = <<>>
    /\ checkpoint = NoRow
    /\ locks = [i \in DOMAIN InitInvoices |-> NoOwner]
    /\ exchange = <<>>
    /\ PollersIdle
    /\ WorkersIdle
    /\ req = <<>>
    /\ \E p \in SignPayloads, t \in SignTimestamps, s \in SignSecrets :
         test = [pc |-> "sign", payload |-> p, timestamp |-> t, secret |-> s]

\* The sender signs (worker.py line 45)
SignCall ==
    /\ test.pc = "sign"
    /\ test' = [pc |-> "signed", payload |-> test.payload, timestamp |-> test.timestamp,
                secret |-> test.secret,
                signature |-> sign_webhook(test.payload, test.timestamp, test.secret)]
    /\ UNCHANGED <<dbvars, exchange, pollervars, polls, faults, req, workervars, run>>

\* The receiver verifies, with the four values as signed or with one of them
\* replaced
VerifyCall ==
    /\ test.pc = "signed"
    /\ \E replaced \in {"none", "payload", "timestamp", "secret", "signature"},
          p \in SignPayloads, t \in SignTimestamps, s \in SignSecrets,
          g \in SignSignatures :
         LET payload == IF replaced = "payload" THEN p ELSE test.payload
             timestamp == IF replaced = "timestamp" THEN t ELSE test.timestamp
             secret == IF replaced = "secret" THEN s ELSE test.secret
             signature == IF replaced = "signature" THEN g ELSE test.signature
         IN  test' = [pc |-> "verified", signed |-> test,
                      payload |-> payload, timestamp |-> timestamp,
                      secret |-> secret, signature |-> signature,
                      result |-> verify_webhook_signature(payload, timestamp,
                                                          secret, signature)]
    /\ UNCHANGED <<dbvars, exchange, pollervars, polls, faults, req, workervars, run>>

SignNext == SignCall \/ VerifyCall

SpecSign == SignInit /\ [][SignNext]_vars

----------------------------------------------------------------------------
\* Properties of the matcher and the poller

PaymentsOf(t) == {r \in payments : r.tx_id = t}

LedgerOf(payment_id) ==
    {i \in DOMAIN ledger_entries : ledger_entries[i].reference_id = payment_id}

WebhooksOf(t) == {i \in DOMAIN webhook_queue : webhook_queue[i].txHash = t}

\* C1: every credited deposit (deposit_raw.processed = true) has exactly one
\* Payment with its tx_id, that Payment has exactly one LedgerEntry
\* referencing it, and the invoice the Payment points to has status paid.
C1_CreditedDepositSettled ==
    \A t \in DOMAIN deposit_raw :
        deposit_raw[t].processed =>
            /\ Cardinality(PaymentsOf(t)) = 1
            /\ \A r \in PaymentsOf(t) :
                 /\ Cardinality(LedgerOf(r.id)) = 1
                 /\ invoices[r.invoice_id].status = "paid"


\* C2: in no committed state does a proper subset of the five writes of a
\* credit exist: for every deposit the Payment, the LedgerEntry,
\* invoice.status = paid, deposit_raw.processed = true and the pending
\* WebhookQueue row are all present or all absent.
HasPayment(t) == PaymentsOf(t) # {}

HasLedgerEntry(t) == \E i \in DOMAIN ledger_entries : ledger_entries[i].tx_id = t

IsProcessed(t) == t \in DOMAIN deposit_raw /\ deposit_raw[t].processed

HasPendingWebhook(t) == \E i \in WebhooksOf(t) : webhook_queue[i].status = "pending"

InvoicePaidFor(t) ==
    \E i \in DOMAIN invoices :
        /\ invoices[i].status = "paid"
        /\ \/ \E r \in PaymentsOf(t) : r.invoice_id = i
           \/ \E j \in DOMAIN ledger_entries :
                 ledger_entries[j].tx_id = t /\ ledger_entries[j].invoice_id = i
           \/ \E j \in WebhooksOf(t) : webhook_queue[j].invoiceId = i

C2_FiveWritesAllOrNone ==
    \A t \in TxIds :
        /\ HasPayment(t) <=> HasLedgerEntry(t)
        /\ HasPayment(t) <=> IsProcessed(t)
        /\ HasPayment(t) <=> HasPendingWebhook(t)
        /\ HasPayment(t) <=> InvoicePaidFor(t)

\* What does hold of the commits themselves: the four rows of a deposit are
\* all present or all absent in every committed state, and the step that
\* makes them present is the step that turns the invoice from pending to paid.
C2_WritesCommitTogether ==
    /\ [](\A t \in TxIds :
            /\ HasPayment(t) <=> HasLedgerEntry(t)
            /\ HasPayment(t) <=> IsProcessed(t)
            /\ HasPayment(t) <=> HasPendingWebhook(t))
    /\ [][\A t \in TxIds :
            (~HasPayment(t) /\ HasPayment(t)') =>
                \A r \in PaymentsOf(t)' :
                    /\ invoices[r.invoice_id].status = "pending"
                    /\ invoices'[r.invoice_id].status = "paid"]_vars
    /\ [][\A i \in DOMAIN invoices :
            (invoices[i].status # "paid" /\ invoices'[i].status = "paid") =>
                \E r \in payments' \ payments : r.invoice_id = i]_vars

\* C3: whatever the interleaving of the matcher transactions, every invoice
\* has at most one Payment and every tx_id has at most one Payment.
C3_AtMostOnePayment ==
    /\ \A i \in DOMAIN invoices : Cardinality({r \in payments : r.invoice_id = i}) <= 1
    /\ \A t \in TxIds : Cardinality(PaymentsOf(t)) <= 1

\* A matcher holds the lock of a candidate with the deposit's amount that
\* another deposit's matcher has paid since the candidates were selected.
C3_Witness ==
    \E p \in Pollers :
        /\ pc[p] \in {"exact", "diff", "commit"}
        /\ \E c \in cands[p] :
             /\ locks[c] = p
             /\ invoices[c].status = "paid"
             /\ invoices[c].publish_amount = RawRec(p).amount
             /\ \E r \in payments : r.invoice_id = c /\ r.tx_id # RawRec(p).tx_id

\* C4: a deposit whose coin is not USDT, whose status is not 1 or whose
\* confirmTimes is below the required confirmations of its network (ERC20/ETH
\* 12, BEP20 3, TRC20/TRON 20, otherwise the fallback 2) makes
\* try_match_and_credit return false without a write: no Payment,
\* LedgerEntry, WebhookQueue, AuditLog or SystemEvent row, no invoice status
\* change, no row lock, and deposit_raw.processed stays false.
StatedConfirmations(network) ==
    CASE network \in {"ERC20", "ETH"} -> 12
      [] network = "BEP20" -> 3
      [] network \in {"TRC20", "TRON"} -> 20
      [] OTHER -> 2

StatedGateShut(row) ==
    \/ Upper(row.coin) # "USDT"
    \/ row.status # 1
    \/ row.confirmTimes < StatedConfirmations(row.network)

C4_GateShutWritesNothing ==
    /\ \A t \in DOMAIN deposit_raw :
         StatedGateShut(deposit_raw[t]) =>
            /\ ~deposit_raw[t].processed
            /\ ~HasPayment(t)
            /\ ~HasLedgerEntry(t)
            /\ WebhooksOf(t) = {}
            /\ \A i \in DOMAIN audit_logs : audit_logs[i].tx # t
            /\ \A i \in DOMAIN system_events : system_events[i].tx # t
    /\ \A p \in Pollers :
         (/\ pc[p] \in {"exact", "diff", "credit1", "credit2", "commit"}
          /\ Head(queue[p]).txId \in DOMAIN tx[p].rows
          /\ res[p] # "raised"              \* the matcher came to its gate
          /\ StatedGateShut(RawRec(p))) =>
            /\ pc[p] = "commit"
            /\ res[p] = "false"
            /\ tx[p] = [EmptyTx EXCEPT !.rows = tx[p].rows]
            /\ ~RawRec(p).processed
            /\ \A i \in DOMAIN locks : locks[i] # p

\* A committed ERC20 deposit with fewer than 12 confirmations whose amount
\* is the publish_amount of a pending invoice on its address.
C4_Witness ==
    \E t \in DOMAIN deposit_raw :
        /\ deposit_raw[t].coin = "USDT" /\ deposit_raw[t].status = 1
        /\ deposit_raw[t].network = "ERC20"
        /\ deposit_raw[t].confirmTimes < 12
        /\ deposit_raw[t].confirmTimes >= FALLBACK_REQUIRED_CONFIRMATIONS
        /\ \E i \in DOMAIN invoices :
             /\ invoices[i].status = "pending"
             /\ invoices[i].address = deposit_raw[t].address
             /\ invoices[i].network = deposit_raw[t].network
             /\ invoices[i].publish_amount = deposit_raw[t].amount


\* C5: a deposit that was ingested but left unprocessed is credited by a
\* later poll over a window containing it, once it passes the gate and a
\* pending invoice matches it: when that poll has handled the deposit, its
\* Payment exists.
C5_LaterPollCredits ==
    [][\A p \in Pollers :
         (/\ pc[p] = "commit"
          /\ pc'[p] # "commit"
          /\ faults' = faults
          /\ Head(queue[p]).txId \in DOMAIN deposit_raw
          /\ ~deposit_raw[Head(queue[p]).txId].processed
          /\ GateOpen(DepositRawOf(Head(queue[p])))
          /\ \E i \in DOMAIN invoices :
               /\ invoices[i].status = "pending"
               /\ invoices[i].address = Head(queue[p]).address
               /\ invoices[i].network = Head(queue[p]).network
               /\ invoices[i].publish_amount = Head(queue[p]).amount)
         => \E r \in payments' : r.tx_id = Head(queue[p]).txId]_vars

\* C7: handling a deposit whose tx_id already has a deposit_raw row adds no
\* deposit_raw, Payment, LedgerEntry or WebhookQueue row and changes no
\* invoice: no step a replica takes for such a deposit writes to these tables.
C7_ReplayWritesNothing ==
    [][\A p \in Pollers :
         (/\ pc[p] # "idle"
          /\ Head(queue[p]).txId \in DOMAIN deposit_raw
          /\ (pc'[p] # pc[p] \/ queue'[p] # queue[p]))
         => UNCHANGED <<deposit_raw, payments, ledger_entries, webhook_queue, invoices>>]_vars

\* A replica is about to commit the replay of a credited deposit while
\* another pending invoice with the deposit's amount exists.
C7_Witness ==
    \E p \in Pollers :
        /\ pc[p] = "commit"
        /\ Head(queue[p]).txId \in DOMAIN deposit_raw
        /\ deposit_raw[Head(queue[p]).txId].processed
        /\ \E i \in DOMAIN invoices :
             /\ invoices[i].status = "pending"
             /\ invoices[i].address = Head(queue[p]).address
             /\ invoices[i].network = Head(queue[p]).network
             /\ invoices[i].publish_amount = Head(queue[p]).amount

\* C8: when no candidate's publish_amount equals the deposit amount and two
\* or more candidates match by amount-diff, the matcher's transaction sets
\* every matching invoice to pending_manual_resolution, adds exactly one
\* AuditLog(collision_detected) and one SystemEvent, creates no Payment,
\* LedgerEntry or WebhookQueue row, leaves deposit_raw.processed false, and
\* collisions_total grows by exactly one.
NoExactAmount(p) == \A c \in cands[p] : invoices[c].publish_amount # RawRec(p).amount

CollisionCase(p) ==
    /\ Head(queue[p]).txId \in DOMAIN tx[p].rows
    /\ cands[p] # {}
    /\ NoExactAmount(p)
    /\ Cardinality(Matches(p)) >= 2

C8_CollisionHandledInOneTransaction ==
    /\ [][\A p \in Pollers :
            (pc[p] = "diff" /\ pc'[p] # "diff" /\ faults' = faults /\ CollisionCase(p))
            => /\ met'[p].collisions = met[p].collisions + 1
               /\ pc'[p] = "commit"
               /\ res'[p] = "false"]_vars
    /\ [][\A p \in Pollers :
            met'[p] # met[p] => (pc[p] = "diff" /\ CollisionCase(p)) \/ faults' # faults]_vars
    /\ [][\A p \in Pollers :
            (pc[p] = "commit" /\ pc'[p] # "commit" /\ faults' = faults /\ CollisionCase(p))
            => /\ \A c \in Matches(p) :
                    invoices'[c].status = "pending_manual_resolution"
               /\ \A i \in DOMAIN invoices \ Matches(p) : invoices'[i] = invoices[i]
               /\ Len(audit_logs') = Len(audit_logs) + 1
               /\ audit_logs'[Len(audit_logs) + 1] =
                     [actor |-> "poller", action |-> "collision_detected",
                      tx |-> RawRec(p).tx_id, matches |-> Matches(p)]
               /\ Len(system_events') = Len(system_events) + 1
               /\ system_events'[Len(system_events) + 1].event_type = "collision"
               /\ UNCHANGED <<payments, ledger_entries, webhook_queue>>
               /\ RawRec(p).tx_id \in DOMAIN deposit_raw'
               /\ ~deposit_raw'[RawRec(p).tx_id].processed]_vars

\* A collision is committed: the audit row is there and its invoices, two at
\* least, are in pending_manual_resolution.
C8_Witness ==
    \E i \in DOMAIN audit_logs :
        /\ audit_logs[i].action = "collision_detected"
        /\ Cardinality(audit_logs[i].matches) >= 2
        /\ \A c \in audit_logs[i].matches :
             invoices[c].status = "pending_manual_resolution"
        /\ audit_logs[i].tx \in DOMAIN deposit_raw
        /\ \E q \in Pollers : met[q].collisions = 1

\* C9: when no candidate's publish_amount equals the deposit amount and
\* exactly one candidate matches by amount-diff, the invoice is locked; if it
\* is still pending it is credited with used_amount_diff = true, and if it
\* is not, nothing is written and the outcome is false.
C9_SingleAmountDiffMatch ==
    /\ [](\A r \in payments :
            IF r.used_amount_diff
            THEN /\ invoices[r.invoice_id].publish_amount # r.amount
                 /\ adjusted_amount_for_invoice(invoices[r.invoice_id].publish_amount,
                        r.invoice_id, invoices[r.invoice_id].network, AMOUNT_DIFF_K) = r.amount
            ELSE invoices[r.invoice_id].publish_amount = r.amount)
    /\ [][\A p \in Pollers :
            (/\ pc[p] = "diff" /\ pc'[p] # "diff" /\ faults' = faults
             /\ NoExactAmount(p)
             /\ Cardinality(Matches(p)) = 1)
            => \A c \in Matches(p) :
                 /\ locks'[c] = p
                 /\ IF invoices[c].status = "pending"
                    THEN /\ pc'[p] = "credit1"
                         /\ tgt'[p] = [invoice |-> c, used_amount_diff |-> TRUE]
                         /\ tx'[p] = tx[p]
                    ELSE /\ pc'[p] = "commit"
                         /\ res'[p] = "false"
                         /\ tx'[p] = tx[p]]_vars
    /\ [][\A p \in Pollers :
            (/\ pc[p] = "commit" /\ pc'[p] # "commit" /\ faults' = faults
             /\ tgt[p].used_amount_diff)
            => /\ invoices[tgt[p].invoice].status = "pending"
               /\ invoices'[tgt[p].invoice].status = "paid"
               /\ \E r \in payments' \ payments :
                    /\ r.invoice_id = tgt[p].invoice
                    /\ r.tx_id = Head(queue[p]).txId
                    /\ r.used_amount_diff]_vars

\* A Payment credited by the amount-diff pass is committed.
C9_Witness ==
    \E r \in payments :
        /\ r.used_amount_diff
        /\ invoices[r.invoice_id].status = "paid"
        /\ deposit_raw[r.tx_id].processed

\* The amount-diff pass finds its single match paid by another deposit and
\* gives up without a write.
C9_WitnessNotPending ==
    \E p \in Pollers :
        /\ pc[p] = "commit"
        /\ res[p] = "false"
        /\ NoExactAmount(p)
        /\ Cardinality(Matches(p)) = 1
        /\ \E c \in Matches(p) : locks[c] = p /\ invoices[c].status = "paid"


\* C6: for any deposit record with a txId that has no row yet, calling
\* ingest_deposit twice (inside one open transaction, or in two) returns
\* inserted = true the first time, inserted = false with the same row the
\* second time, and one DepositRaw row with that tx_id exists afterwards.
C6_IngestTwiceIdempotent ==
    (test.pc = "done" /\ test.dep.txId # None /\ test.fresh) =>
        /\ ~test.raised
        /\ test.out1.inserted
        /\ ~test.out2.inserted
        /\ test.out2.rec = test.out1.rec
        /\ test.dep.txId \in DOMAIN deposit_raw

\* What does hold: the two calls made in two transactions behave as stated.
C6_TwoTransactionsIdempotent ==
    (test.pc = "done" /\ test.dep.txId # None /\ test.fresh /\ test.mode = "two") =>
        /\ ~test.raised
        /\ test.out1.inserted
        /\ ~test.out2.inserted
        /\ test.out2.rec = test.out1.rec
        /\ test.dep.txId \in DOMAIN deposit_raw


\* C10: in every reachable state, under concurrent create_invoice requests
\* and after collision-exhaustion fallbacks, no two invoice rows with a
\* non-null address share the same (merchant_id, publish_amount, address).
InvoiceRowsOf(f) == {<<i, f[i]>> : i \in DOMAIN f}

AllInvoiceRows ==
    InvoiceRowsOf(invoices) \cup UNION {InvoiceRowsOf(req[r].ins) : r \in DOMAIN req}

C10_UniqueMerchantAmountAddress ==
    \A x, y \in AllInvoiceRows :
        (/\ x # y
         /\ x[2].address # None
         /\ y[2].address # None)
        => <<x[2].merchant_id, x[2].publish_amount, x[2].address>>
             # <<y[2].merchant_id, y[2].publish_amount, y[2].address>>

\* Two requests for the same merchant, base amount and address have both
\* exhausted their candidates; the failure invoice of one is committed and
\* the other's was rejected.
C10_Witness ==
    \E r, q \in DOMAIN req :
        /\ r # q
        /\ req[r].pc = "done" /\ req[q].pc = "done"
        /\ req[r].attempt = MAX_INVOICE_CREATION_ATTEMPTS
        /\ req[q].attempt = MAX_INVOICE_CREATION_ATTEMPTS
        /\ req[r].address # None
        /\ req[r].base_amount = req[q].base_amount
        /\ req[r].address = req[q].address
        /\ req[r].wrote_failure /\ ~req[q].wrote_failure
        /\ faults = 0
        /\ \E i \in DOMAIN invoices :
             /\ invoices[i].status = "pending_manual_resolution"
             /\ invoices[i].publish_amount = req[r].base_amount


\* C11: invoice creation probes u = (u0 + attempt) mod 2^128 for attempt =
\* 0, 1, ... in order; a rejected attempt leaves no row behind; the request
\* returns the first accepted candidate as an invoice with id = u, status
\* pending and publish_amount = base_amount + (u mod 10^k) * 10^-k rounded
\* down to the network precision; nothing is tried after a success.
StatedCandidate(r) == (r.base_uuid_int + r.attempt) % (2 ^ UuidBits)

StatedAmountDiff(base_amount, u) ==
    QuantizeDown(base_amount + (u % 1000) * Pow10(FracDigits - 3), 6)

C11_FirstAcceptedCandidate ==
    /\ [](\A r \in DOMAIN req :
            /\ req[r].ins # <<>> /\ req[r].pc = "flushed"
                 => DOMAIN req[r].ins = {StatedCandidate(req[r])}
            /\ req[r].resp = "201" =>
                 /\ req[r].invoice_id = StatedCandidate(req[r])
                 /\ req[r].invoice_id \in DOMAIN invoices
                 /\ invoices[req[r].invoice_id] =
                       [merchant_id |-> req[r].merchant_id,
                        publish_amount |-> StatedAmountDiff(req[r].base_amount,
                                                            req[r].invoice_id),
                        network |-> req[r].network,
                        address |-> req[r].address,
                        address_tag |-> req[r].address_tag,
                        status |-> "pending"]
                 /\ \A a \in 0..(req[r].attempt - 1) :
                      LET u == (req[r].base_uuid_int + a) % (2 ^ UuidBits) IN
                        \E i \in DOMAIN invoices \ {req[r].invoice_id} :
                           \/ i = u
                           \/ /\ invoices[i].address # None
                              /\ invoices[i].merchant_id = req[r].merchant_id
                              /\ invoices[i].address = req[r].address
                              /\ invoices[i].publish_amount =
                                    StatedAmountDiff(req[r].base_amount, u))
    /\ [][\A r \in DOMAIN req :
            /\ req'[r].attempt \in {req[r].attempt, req[r].attempt + 1}
            /\ req'[r].attempt = req[r].attempt + 1 =>
                 /\ invoices' = invoices
                 /\ req[r].ins = <<>> /\ req'[r].ins = <<>>
            /\ (req[r].resp # "201" /\ req'[r].resp = "201") =>
                 /\ DOMAIN invoices' = DOMAIN invoices \cup {req'[r].invoice_id}
                 /\ req'[r].invoice_id \notin DOMAIN invoices
            /\ req[r].pc = "done" => req'[r] = req[r]]_vars

\* A request whose first candidate, 2^128 - 1, was rejected is answered with
\* a candidate taken after the wrap.
C11_Witness ==
    \E r \in DOMAIN req :
        /\ req[r].resp = "201"
        /\ req[r].base_uuid_int = 2 ^ UuidBits - 1
        /\ req[r].attempt >= 1
        /\ req[r].invoice_id = req[r].attempt - 1

\* C12: whenever all MAX_ATTEMPTS candidates of a request are rejected by
\* the unique constraint, the state after the request holds exactly one new
\* invoice with status pending_manual_resolution and publish_amount =
\* base_amount, one new AuditLog and one new SystemEvent, whatever the
\* database held before.
ExhaustedRequests ==
    {r \in DOMAIN req : req[r].pc = "done" /\ req[r].attempt = 5}

FailureInvoicesOf(r) ==
    {i \in DOMAIN invoices :
        /\ i >= 2 ^ UuidBits
        /\ invoices[i].status = "pending_manual_resolution"
        /\ invoices[i].merchant_id = req[r].merchant_id
        /\ invoices[i].address = req[r].address
        /\ invoices[i].publish_amount = req[r].base_amount}

C12_ExhaustionLeavesRecords ==
    faults = 0 =>
        /\ \A r \in ExhaustedRequests : FailureInvoicesOf(r) # {}
        /\ Cardinality({i \in DOMAIN invoices : i >= 2 ^ UuidBits})
              = Cardinality(ExhaustedRequests)
        /\ Len(audit_logs) = Cardinality(ExhaustedRequests)
        /\ Len(system_events) = Cardinality(ExhaustedRequests)

\* C13: when all candidates collide and the manual-resolution invoice has
\* been written, the request fails with HTTP 409; HTTP 500 is returned only
\* for failures other than collision exhaustion.
C13_ExhaustionAnswers409 ==
    \A r \in DOMAIN req :
        /\ (req[r].pc = "done" /\ req[r].wrote_failure) => req[r].resp = "409"
        /\ (req[r].pc = "done" /\ req[r].resp = "500") => ~req[r].wrote_failure


-----------------------------------------------------------------------------
\* Properties of the webhook dispatcher

\* Some worker holds row i with a delivery made and its outcome not yet
\* through the end of the iteration.
InFlight(i) ==
    \E w \in Workers : wk[w].rowid = i /\ wk[w].pc \in {"update", "close"}

EnqueuedByMatcher(i) == webhook_queue[i].webhook_url = None

\* C15: at-least-once delivery.  With every worker scheduled fairly, each
\* row the matcher enqueued is eventually POSTed to the merchant endpoint,
\* and a row for which the endpoint has answered 2xx is eventually stored
\* with status success.  Rows stay in the queue, the POST counts only grow
\* and success is final, so "each row eventually" is "eventually all rows"
\* and "answered leads to stored" is "again and again every answered row
\* is stored".
C15_AtLeastOnceDelivery ==
    /\ <>(\A i \in DOMAIN webhook_queue :
              EnqueuedByMatcher(i) => net.posts[i] > 0)
    /\ []<>(\A i \in DOMAIN webhook_queue :
              net.oks[i] > 0 => webhook_queue[i].status = "success")

\* Worker w ends an iteration whose delivery failed.
ClosesFailedIteration(w) ==
    wk[w].pc = "close" /\ wk'[w].pc = "select" /\ ~wk[w].success

C16_SessionRowFollowsSchedule ==
    \A w \in Workers :
        (wk[w].pc = "close" /\ ~wk[w].success) =>
            LET i == wk[w].rowid
                n == webhook_queue[i].attempts + 1
            IN  /\ wk[w].row.attempts = n
                /\ wk[w].row.last_error = wk[w].err
                /\ n < MAX_ATTEMPTS =>
                      /\ wk[w].row.status = "pending"
                      /\ \E now \in 0 .. net.clock :
                            wk[w].row.next_attempt_at
                               = now + Min(600, BACKOFF_BASE * 2 ^ (n - 1))

\* Workers that have taken row i in the iteration they are in.
HoldersOf(i) == {w \in Workers : wk[w].rowid = i}

\* Workers whose POST for row i has left and whose iteration is not over.
PostedInFlight(i) ==
    {w \in HoldersOf(i) : wk[w].pc \in {"update", "close"}}

\* C17: with two workers no row is picked up twice for the same attempt.
\* At any time at most one worker holds a given row; for a row that has a
\* URL the POSTs sent equal the stored attempts plus the one attempt in
\* flight, if any; and once the endpoint has answered 2xx for a row no
\* further POST is sent for it.
C17_NoDualDelivery ==
    /\ [](\A i \in DOMAIN webhook_queue :
            /\ Cardinality(HoldersOf(i)) <= 1
            /\ webhook_queue[i].webhook_url # None =>
                  net.posts[i] = webhook_queue[i].attempts
                                    + Cardinality(PostedInFlight(i)))
    /\ [][\A i \in DOMAIN webhook_queue :
            net.oks[i] > 0 => net.posts'[i] = net.posts[i]]_vars

-----------------------------------------------------------------------------
\* Properties of adjusted_amount_for_invoice

\* The call under observation has returned a value.
Returned == test.pc = "amount" /\ test.last # NoCall /\ ~test.last.raised

\* The network's decimal precision as the contract gives it: ERC20 and
\* TRC20 six, BEP20 eighteen, unknown six.
StatedPrecision(network) ==
    IF network \in {"BEP20", "bep20", "BSC", "bsc"} THEN 18 ELSE 6

\* x rounded down to p fractional digits.
FloorAt(x, p) ==
    IF p >= FracDigits THEN x ELSE x - (x % Pow10(FracDigits - p))

\* C18 as stated: for every positive base_amount, id, network and k >= 0 the
\* value returned is at least base_amount, also when base_amount carries
\* more fractional digits than the network precision.
C18_AdjustedAtLeastBase ==
    Returned => test.last.value >= test.last.args.base_amount

\* C18 as amended: the value returned is at least base_amount rounded down
\* to the network precision.  It is therefore at least base_amount when
\* base_amount carries no more fractional digits than the network
\* precision, and otherwise less than base_amount by under one unit of the
\* network precision.
C18_AdjustedAtLeastRoundedBase ==
    Returned =>
        LET b == test.last.args.base_amount
            p == StatedPrecision(test.last.args.network)
            v == test.last.value
        IN  /\ v >= FloorAt(b, p)
            /\ FloorAt(b, p) = b => v >= b
            /\ p < FracDigits => b - v < Pow10(FracDigits - p)

\* A base with more digits than the network has came back smaller.
C18_Witness ==
    /\ Returned
    /\ test.last.args.base_amount = OverPreciseBase
    /\ test.last.value < test.last.args.base_amount
    /\ test.last.value = FloorAt(OverPreciseBase, 6)

\* d < 10^(-k) + 10^(-p) for a difference d counted in units of
\* 10^-FracDigits; a term below one unit makes the comparison non-strict.
BelowStatedBound(d, k, p) ==
    LET whole == (IF k <= FracDigits THEN Pow10(FracDigits - k) ELSE 0)
                 + (IF p <= FracDigits THEN Pow10(FracDigits - p) ELSE 0)
    IN  IF k > FracDigits \/ p > FracDigits THEN d <= whole ELSE d < whole

\* C19 as stated: for every base_amount, id, network and k the value
\* returned exceeds base_amount by less than 10^(-k) + 10^(-precision).
C19_DeltaBelowOneStep ==
    Returned =>
        BelowStatedBound(test.last.value - test.last.args.base_amount,
                         test.last.args.k,
                         StatedPrecision(test.last.args.network))

\* C19 as amended: the value returned exceeds base_amount by at most
\* idx * 10^(-k), idx = invoice_id mod 10^k, which is less than 1.
C19_DeltaAtMostIndexSteps ==
    Returned =>
        LET d == test.last.value - test.last.args.base_amount
            k == test.last.args.k
            idx == IF k <= 0 THEN 0 ELSE test.last.args.invoice_id % Pow10(k)
        IN  /\ d < Pow10(FracDigits)
            /\ IF k <= FracDigits
               THEN d <= idx * Pow10(FracDigits - k)
               ELSE d * Pow10(k - FracDigits) <= idx

\* An index of two or more: the amount added is beyond the stated bound.
C19_Witness ==
    /\ Returned
    /\ test.last.args.k = AMOUNT_DIFF_K
    /\ test.last.args.invoice_id % 1000 >= 2
    /\ test.last.value - test.last.args.base_amount
          >= 2 * Pow10(FracDigits - AMOUNT_DIFF_K)

C21_DigitsBeyondPrecisionRejected ==
    (test.pc = "amount" /\ test.last # NoCall) =>
        (test.last.args.k > StatedPrecision(test.last.args.network)
            => test.last.raised)

-----------------------------------------------------------------------------
\* Properties of the matcher under concurrency and failure

\* C22: an invoice's stored status changes only from pending to paid or from
\* pending to pending_manual_resolution, and only by the commit of a replica
\* that holds the lock of the row.  An invoice that is paid or
\* pending_manual_resolution never changes status again.
C22_StatusOnlyLeavesPending ==
    [][\A i \in DOMAIN invoices :
          invoices'[i].status # invoices[i].status =>
             /\ invoices[i].status = "pending"
             /\ invoices'[i].status \in {"paid", "pending_manual_resolution"}
             /\ locks[i] \in Pollers
             /\ pc[locks[i]] # pc'[locks[i]]
      ]_vars

\* s is an initial part of t: every row of s is in t, at its place, unchanged.
IsPrefix(s, t) == Len(s) <= Len(t) /\ \A i \in DOMAIN s : t[i] = s[i]

\* C23: ledger_entries and audit_logs are append-only.  In every step, of
\* the poller, the matcher or a session that attempts UPDATE or DELETE on
\* them, the committed rows of both tables stay as they are and rows are
\* only added.
C23_AppendOnly ==
    [][/\ IsPrefix(ledger_entries, ledger_entries')
       /\ IsPrefix(audit_logs, audit_logs')]_vars

\* Both tables hold a row, and an UPDATE or DELETE has been attempted on
\* a committed row and refused.
C23_Witness ==
    /\ Len(ledger_entries) > 0
    /\ Len(audit_logs) > 0
    /\ faults > 0
    /\ \A p \in Pollers : pc[p] = "idle"

-----------------------------------------------------------------------------
\* Properties of the poller's outer loop

\* The window of the pass has completed in this step (service.py line 117).
WindowCompletes == run'.window_start > run.window_start /\ run.pc \in {"window", "in_window"}

\* The pass has failed in this step and the loop starts its backoff sleep.
PassFails == run.pc # "backoff" /\ run'.pc = "backoff"

\* C24: after the n-th consecutive failure of a pass at window level the
\* loop sleeps min(300, 2^n) seconds, doubling up to the cap of 300; the
\* count of consecutive failures is back at zero after the next window that
\* completes.
C24_BackoffDoublesTo300 ==
    [][/\ PassFails =>
            /\ run'.consecutive_errors = run.consecutive_errors + 1
            /\ run'.slept = Min(300, 2 ^ run'.consecutive_errors)
       /\ WindowCompletes => run'.consecutive_errors = 0]_vars

\* The tables as committed, the checkpoint included.
Committed ==
    <<invoices, deposit_raw, payments, ledger_entries, webhook_queue,
      audit_logs, system_events, checkpoint>>

\* The transaction of p's current deposit fails in this step: a statement
\* of it fails, or ingest_deposit raises.
DepositFails(p) ==
    \/ DbFail(p)
    \/ /\ pc[p] = "ingest"
       /\ ingest_deposit(tx[p], Head(queue[p])).raised
       /\ Ingest(p)

\* C25: a failure while one deposit of a window is processed does not stop
\* the window: the loop goes on with the next deposit of the window, the
\* later deposits stay queued in their order, and nothing committed for
\* another deposit, nor another replica's open transaction, is touched.
C25_FailureLeavesWindowRunning ==
    [][\A p \in Pollers :
         DepositFails(p) =>
            /\ queue'[p] = Tail(queue[p])
            /\ pc'[p] = IF Tail(queue[p]) # <<>> THEN "ingest" ELSE "idle"
            /\ tx'[p] = EmptyTx
            /\ Committed' = Committed
            /\ \A q \in Pollers \ {p} : tx'[q] = tx[q] /\ queue'[q] = queue[q]]_vars

\* One fetch in all, whose window held t1 and t2; t1 failed and left no
\* row, t2 after it was ingested, matched, credited and committed.
C25_Witness ==
    /\ polls = 1
    /\ faults = 1
    /\ "t1" \notin DOMAIN deposit_raw
    /\ "t2" \in DOMAIN deposit_raw
    /\ deposit_raw["t2"].processed
    /\ \A p \in Pollers : pc[p] = "idle"

\* The replica leaves its current deposit in this step, after
\* try_match_and_credit has raised for it: the exception was caught at
\* service.py line 81, or it came with a failed statement of the matcher.
LeavesAfterMatcherRaised(p) ==
    /\ pc[p] # "idle"
    /\ queue'[p] # queue[p]
    /\ \/ res[p] = "raised"
       \/ pc[p] \in {"match", "exact", "diff", "credit1", "credit2"}

\* C29: when the matcher raises for a newly ingested deposit, the deposit's
\* unit of work is rolled back: neither its deposit_raw row, nor a Payment or
\* invoice change, nor the checkpoint update is committed, and the deposit
\* has no row afterwards, so that a later poll ingests it as new.
C29_MatcherFailureRollsBack ==
    [][\A p \in Pollers :
         LeavesAfterMatcherRaised(p) =>
            /\ Committed' = Committed
            /\ Head(queue[p]).txId \notin DOMAIN deposit_raw']_vars

\* The deposits the replica still has to process, the current one first, are
\* in ascending insertTime order and belong to the window being processed.
QueueAscendingInWindow ==
    /\ \A i, j \in DOMAIN queue[Runner] :
         i < j => queue[Runner][i].insertTime <= queue[Runner][j].insertTime
    /\ queue[Runner] # <<>> =>
         /\ run.pc = "in_window"
         /\ \A i \in DOMAIN queue[Runner] :
              /\ run.window_start <= queue[Runner][i].insertTime
              /\ queue[Runner][i].insertTime <= run.window_end

\* Within a pass a window starts after the end of the window before it, once
\* every deposit of that window has been processed.
WindowsInOrder ==
    (run.pc \in {"window", "in_window"} /\ run'.window_start # run.window_start) =>
        /\ run'.window_start = run'.window_end + 1
        /\ run'.window_end >= run.window_start
        /\ queue'[Runner] = <<>>
        /\ pc[Runner] = "idle"

\* C26: within a window deposits are processed in ascending insertTime
\* order, whatever order the exchange returned them in; across the windows
\* of a pass every deposit of an earlier window is processed before any
\* deposit of a later window.
C26_AscendingProcessingOrder ==
    []QueueAscendingInWindow /\ [][WindowsInOrder]_vars

\* Both cases: a window holding t1 and t2 with t1 done and t2 in the
\* matcher, and t2 being matched in the second window of a pass after t1 was
\* committed in the first.
C26_WitnessSameWindow ==
    /\ queue[Runner] # <<>>
    /\ Head(queue[Runner]).txId = "t2"
    /\ pc[Runner] = "match"
    /\ run.window_start <= exchange["t1"].insertTime
    /\ exchange["t1"].insertTime < exchange["t2"].insertTime
    /\ "t1" \in DOMAIN deposit_raw

C26_Witness ==
    /\ queue[Runner] # <<>>
    /\ Head(queue[Runner]).txId = "t2"
    /\ pc[Runner] = "match"
    /\ run.window_start > run.start_ms
    /\ run.start_ms <= exchange["t1"].insertTime
    /\ "t1" \in DOMAIN deposit_raw

-----------------------------------------------------------------------------
\* Properties of the two passes of the matcher

\* The candidates of p's deposit that are still pending and whose
\* publish_amount is the deposit's amount.
ExactCandidates(p) ==
    {c \in cands[p] :
        /\ invoices[c].status = "pending"
        /\ invoices[c].publish_amount = RawRec(p).amount}

\* p's transaction commits a credit found by the exact pass.
CommitsExactCredit(p) ==
    /\ pc[p] = "commit"
    /\ res[p] = "true"
    /\ ~tgt[p].used_amount_diff
    /\ Commit(p)

\* C30: when a still-pending candidate has the deposit's amount as its
\* publish_amount, the exact pass credits one such candidate with
\* used_amount_diff = false and the match stops there: the amount-diff pass
\* and its collision escalation are not run, and no other candidate changes
\* status.
C30_ExactPassTakesPrecedence ==
    [][\A p \in Pollers :
         /\ (pc[p] = "exact" /\ pc'[p] # "exact" /\ queue'[p] = queue[p]
                /\ ExactCandidates(p) # {}) =>
               /\ pc'[p] = "credit1"
               /\ tgt'[p].invoice \in ExactCandidates(p)
               /\ ~tgt'[p].used_amount_diff
               /\ met' = met
               /\ tx' = tx
         /\ (pc[p] # "diff" /\ pc'[p] = "diff") => ExactCandidates(p) = {}
         /\ CommitsExactCredit(p) =>
               /\ invoices' = [invoices EXCEPT ![tgt[p].invoice].status = "paid"]
               /\ invoices[tgt[p].invoice].publish_amount = RawRec(p).amount
               /\ \A r \in payments' \ payments :
                    r.invoice_id = tgt[p].invoice /\ ~r.used_amount_diff
               /\ audit_logs' = audit_logs
               /\ system_events' = system_events]_vars

\* Deposit t1 of 10.001 is being credited to invoice 4001 by the exact pass
\* while the amount-diff values of 1001 and 2001 both equal its amount.
C30_Witness ==
    /\ pc[Runner] = "credit2"
    /\ tgt[Runner] = [invoice |-> 4001, used_amount_diff |-> FALSE]
    /\ {1001, 2001} \subseteq Matches(Runner)
    /\ invoices[1001].status = "pending"
    /\ invoices[2001].status = "pending"

-----------------------------------------------------------------------------
\* Properties of the webhook signature

\* The bytes of a payload: a str and the bytes of its UTF-8 encoding are the
\* same payload.
PayloadBytes(payload) == IF payload.type = "str" THEN Utf8(payload.data) ELSE payload.data

\* How many of the four values differ from the ones of the signing call.
ValuesReplaced ==
    Cardinality(
      {f \in {"payload", "timestamp", "secret", "signature"} :
          \/ f = "payload" /\ PayloadBytes(test.payload) # PayloadBytes(test.signed.payload)
          \/ f = "timestamp" /\ test.timestamp # test.signed.timestamp
          \/ f = "secret" /\ test.secret # test.signed.secret
          \/ f = "signature" /\ test.signature # test.signed.signature})

\* C27: with HMAC-SHA256 collision-free, verify_webhook_signature is true
\* for the payload, timestamp and secret that were signed together with the
\* signature sign_webhook returned, and false when exactly one of the four
\* is replaced by a different value.
C27_SignatureRoundTrip ==
    (test.pc = "verified") =>
        /\ ValuesReplaced = 0 => test.result = "True"
        /\ ValuesReplaced = 1 => test.result = "False"

-----------------------------------------------------------------------------
\* Properties of shutdown

\* The loop of PollerService.run, or of worker process w, begins a new
\* iteration in this step.
PollerIterationStarts == run.pc = "top" /\ run'.pc = "window"

WorkerIterationStarts(w) == wk[w].pc = "select" /\ wk'[w] # wk[w]

\* No transaction is open: whatever was in flight is committed as a whole
\* or rolled back as a whole.
NothingInFlight ==
    /\ \A p \in Pollers : tx[p] = EmptyTx
    /\ \A i \in DOMAIN locks : locks[i] = NoOwner

\* C28: both loops look at a cancellation signal between iterations: once
\* shutdown has been requested neither starts a new iteration, and each
\* comes to an end with no transaction left in flight.
C28_ShutdownStopsLoops ==
    /\ [][run.stop_requested =>
            /\ ~PollerIterationStarts
            /\ \A w \in Workers : ~WorkerIterationStarts(w)]_vars
    /\ (run.stop_requested
          ~> (/\ run.pc \in {"off", "stopped"}
              /\ \A w \in Workers : wk[w].pc = "exited"
              /\ NothingInFlight))

----------------------------------------------------------------------------
\* Properties of the candidate select

\* The deposit carries an address_tag (line 99: a truthy value).
CarriesTag(row) == row.address_tag # None /\ row.address_tag # ""

PaymentLinksMatching ==
    \A pm \in payments :
        /\ pm.tx_id \in DOMAIN deposit_raw
        /\ LET dep == deposit_raw[pm.tx_id]
               inv == invoices[pm.invoice_id]
           IN  /\ dep.address = inv.address
               /\ dep.network = inv.network
               /\ CarriesTag(dep) => inv.address_tag = dep.address_tag

\* The invoices the open transaction of p credits or escalates.
TouchedBy(p) == DOMAIN tx[p].st \cup {pm.invoice_id : pm \in tx[p].pay}

TouchesCandidatesOnly == \A p \in Pollers : TouchedBy(p) \subseteq cands[p]

SelectsPendingOnly ==
    \A p \in Pollers :
        cands'[p] # cands[p] =>
            \/ cands'[p] = {}
            \/ /\ MatchStart(p)
               /\ \A i \in cands'[p] : invoices[i].status = "pending"

\* C31: every Payment links a deposit and an invoice with the same address
\* and the same network and, when the deposit carries an address_tag, the
\* same address_tag; a matcher run credits or escalates only invoices of its
\* candidate set, and the candidate set holds only invoices that were
\* pending when it was selected.
C31_CandidatesMatchDeposit ==
    /\ []PaymentLinksMatching
    /\ []TouchesCandidatesOnly
    /\ [][SelectsPendingOnly]_vars

\* A tagged deposit has been credited to the invoice with its tag, and a later
\* matcher run on the same address and network has selected its candidates
\* without that invoice, which is paid.
C31_Witness ==
    /\ \E pm \in payments :
          /\ pm.tx_id \in DOMAIN deposit_raw
          /\ CarriesTag(deposit_raw[pm.tx_id])
          /\ invoices[pm.invoice_id].address_tag = deposit_raw[pm.tx_id].address_tag
    /\ \E p \in Pollers :
          /\ pc[p] = "exact"
          /\ \E i \in DOMAIN invoices :
                /\ invoices[i].status = "paid"
                /\ invoices[i].address = RawRec(p).address
                /\ invoices[i].network = RawRec(p).network
                /\ i \notin cands[p]

----------------------------------------------------------------------------
\* Properties of the probe sequence of create_invoice

\* The claim's proviso: MAX_ATTEMPTS <= 10^k, and k within the network precision.
ProbeProviso ==
    /\ test.max_attempts <= Pow10(test.k)
    /\ test.k <= network_precision(test.network)

ProbesDiffer ==
    \A i, j \in DOMAIN test.probes :
        i # j => /\ test.probes[i].idx # test.probes[j].idx
                 /\ test.probes[i].amount # test.probes[j].amount

\* The candidates u0 .. u0 + MAX_ATTEMPTS - 1 pass 2^128 - 1.
ProbesWrap == test.base_uuid_int + test.max_attempts - 1 >= two128

----------------------------------------------------------------------------
\* Properties of the checkpoint

CheckpointNeverDecreases ==
    checkpoint # NoRow =>
        /\ checkpoint' # NoRow
        /\ checkpoint'.last_insert_time_ms >= checkpoint.last_insert_time_ms

\* The stored checkpoint changes only in the step that commits the
\* transaction of a deposit, to that deposit's insertTime, and the deposit
\* has a committed deposit_raw row in the same step.
CheckpointSetAtCommit ==
    checkpoint' # checkpoint =>
        /\ Commit(Runner)
        /\ LET dep == Head(queue[Runner])
           IN  /\ checkpoint'.last_insert_time_ms = dep.insertTime
               /\ checkpoint'.last_tx_id = dep.txId
               /\ dep.txId \in DOMAIN deposit_raw'
               /\ deposit_raw'[dep.txId].insert_time_ms = dep.insertTime

\* C33: over the windows and passes of a single poller the stored
\* last_insert_time_ms never decreases, and it is only ever set to the
\* insertTime of a deposit whose per-record transaction committed.
C33_CheckpointHighWaterMark ==
    [][CheckpointNeverDecreases /\ CheckpointSetAtCommit]_vars

\* A later pass, laid out from the checkpoint that the first pass moved from
\* t1 to t2, is about to save the checkpoint again.
C33_Witness ==
    /\ checkpoint # NoRow
    /\ checkpoint.last_tx_id = "t2"
    /\ "t1" \in DOMAIN deposit_raw
    /\ exchange["t1"].insertTime < exchange["t2"].insertTime
    /\ run.start_ms = checkpoint.last_insert_time_ms
    /\ pc[Runner] = "commit"

----------------------------------------------------------------------------
\* Properties of the stored status of a webhook row

\* Worker w ends an iteration whose delivery was answered with 2xx.
ClosesSucceededIteration(w) ==
    wk[w].pc = "close" /\ wk'[w].pc = "select" /\ wk[w].success

\* Row i is stored with a terminal status.
Terminal(i) == webhook_queue[i].status \in {"success", "failed"}

----------------------------------------------------------------------------
\* Properties of the checkpoint against the exchange's records

\* The start time of the first pass: no checkpoint is stored yet (lines 107-109).
FirstPolledStart == NowMs - LookbackMs

\* C35: the checkpoint never moves past a deposit that has not been durably
\* ingested: every deposit the exchange holds with insertTime between the
\* first polled start time and the stored last_insert_time_ms has a
\* deposit_raw row, also when an earlier deposit's transaction failed and was
\* skipped, and across the boundaries of consecutive windows.
C35_CheckpointCoversIngested ==
    checkpoint # NoRow =>
        \A t \in DOMAIN exchange :
            (/\ exchange[t].insertTime >= FirstPolledStart
             /\ exchange[t].insertTime <= checkpoint.last_insert_time_ms)
                => t \in DOMAIN deposit_raw

----------------------------------------------------------------------------
\* Properties of the row locks of the matcher

\* The transaction of replica p for deposit t is in the matcher.
InMatcher(p, t) ==
    /\ pc[p] \in {"match", "exact", "diff", "credit1", "credit2"}
    /\ Head(queue[p]).txId = t

\* The matcher has returned to run_once_window, whose transaction for the
\* deposit is at its checkpoint save and commit.
MatcherReturned(p, t) == pc[p] = "commit" /\ Head(queue[p]).txId = t

\* C36: two matcher transactions that run concurrently over overlapping
\* candidate sets never block each other forever: whatever order each one's
\* candidate rows were returned in, every transaction that has entered the
\* matcher eventually returns from it and comes to its commit.
C36_MatchersDoNotBlockEachOther ==
    \A p \in Pollers : \A t \in TxIds :
        InMatcher(p, t) ~> MatcherReturned(p, t)

----------------------------------------------------------------------------
\* Properties of the ledger

CreditEntries == {i \in DOMAIN ledger_entries : ledger_entries[i].entry_type = "credit_invoice"}

\* The Payments a ledger entry references.
ReferencedBy(i) == {pm \in payments : pm.id = ledger_entries[i].reference_id}

Merchants == {invoices[i].merchant_id : i \in DOMAIN invoices}

RECURSIVE SumOver(_, _)
SumOver(S, f) ==
    IF S = {} THEN 0
    ELSE LET x == CHOOSE y \in S : TRUE IN f[x] + SumOver(S \ {x}, f)

\* The sum of the amounts f[x], x in S, as whole units and the fraction left,
\* so that no intermediate value leaves the range of the amounts themselves.
Total(S, f) ==
    LET unit == Pow10(FracDigits)
        whole == SumOver(S, [x \in S |-> f[x] \div unit])
        frac == SumOver(S, [x \in S |-> f[x] % unit])
    IN  <<whole + (frac \div unit), frac % unit>>

LedgerTotal(m) ==
    LET S == {i \in CreditEntries : ledger_entries[i].merchant_id = m}
    IN  Total(S, [i \in S |-> ledger_entries[i].change_amount])

DepositsCreditedTotal(m) ==
    LET S == {pm \in payments : invoices[pm.invoice_id].merchant_id = m}
    IN  Total(S, [pm \in S |-> deposit_raw[pm.tx_id].amount])

\* C37: in every committed state each credit_invoice LedgerEntry references
\* exactly one Payment, its merchant_id is the merchant of that Payment's
\* invoice, its change_amount equals the Payment's amount, which equals the
\* amount of the settled DepositRaw; and per merchant the sum of the
\* credit_invoice entries equals the sum of the deposits credited to that
\* merchant's invoices.
C37_LedgerMirrorsPayments ==
    /\ \A i \in CreditEntries :
          /\ Cardinality(ReferencedBy(i)) = 1
          /\ \A pm \in ReferencedBy(i) :
                /\ ledger_entries[i].merchant_id = invoices[pm.invoice_id].merchant_id
                /\ ledger_entries[i].change_amount = pm.amount
                /\ pm.tx_id \in DOMAIN deposit_raw
                /\ deposit_raw[pm.tx_id].amount = pm.amount
                /\ deposit_raw[pm.tx_id].processed
    /\ \A pm \in payments : pm.tx_id \in DOMAIN deposit_raw
    /\ \A m \in Merchants : LedgerTotal(m) = DepositsCreditedTotal(m)

\* Two deposits have been credited to invoices of one merchant: its ledger
\* holds two credit_invoice entries with different references.
C37_Witness ==
    \E i, j \in CreditEntries :
        /\ i # j
        /\ ledger_entries[i].merchant_id = ledger_entries[j].merchant_id
        /\ ledger_entries[i].reference_id # ledger_entries[j].reference_id
        /\ ledger_entries[i].change_amount # ledger_entries[j].change_amount

----------------------------------------------------------------------------
\* Properties of the order in which the dispatcher takes rows

\* Rows a queue of the model can hold.
QueueSlots == 1..2

\* deliver_webhook has been called for row i at least once.
Attempted(i) == net.oks[i] + net.fails[i] > 0

\* An iteration that finds a due row takes the oldest due row.
SelectsOldestDue ==
    \A w \in Workers :
        (wk[w].pc = "select" /\ wk'[w].pc = "load") =>
            /\ wk'[w].rowid \in DueRows
            /\ \A j \in DueRows : wk'[w].rowid <= j

\* C38: no head-of-line blocking in the webhook queue: an iteration that
\* finds a pending row due takes the oldest due row by created_at, and under
\* fair scheduling every due row is eventually attempted, also when an older
\* row keeps failing.
C38_NoHeadOfLineBlocking ==
    /\ [][SelectsOldestDue]_vars
    /\ \A i \in QueueSlots :
          (i \in DueRows) ~> (i \in DOMAIN webhook_queue /\ Attempted(i))

====
